---- MODULE Spec2Model ----
(***************************************************************************)
(* Model of poker_vision: the symbol segmentation core                     *)
(* (src/core/symbol_splitter.py), the binarizers (binarize_image of        *)
(* src/utils/image_utils.py), the template store                           *)
(* (src/core/template_manager.py), the text labeling session of            *)
(* src/ui/labeling_mode.py and the screenshot session of                   *)
(* src/ui/screenshot_mode.py.                                              *)
(*                                                                         *)
(* Boxes are tuples <<x, y, w, h>> as in the source.  Pixel coordinates    *)
(* are 0-based as in numpy: an image is                                    *)
(*   [height |-> h, width |-> w, pix |-> [0..w-1 -> [0..h-1 -> value]]]    *)
(* (pix[x][y] is the source's image[y, x]).                                *)
(***************************************************************************)
EXTENDS Integers, Sequences, FiniteSets, TLC

VARIABLES
    pc,             \* "ready" before the modelled call, "done" after it
    self,           \* the SymbolSplitter: [min_width, min_height]
    image,          \* the image argument of the call
    min_gap,        \* split_by_projection's min_gap argument
    bboxes,         \* merge_close_boxes' bboxes argument
    max_gap,        \* merge_close_boxes' max_gap argument
    use_projection, \* split_to_symbols' use_projection argument
    locals,         \* the local variables of split_to_symbols,
                    \* save_text_label or on_symbol_selected when it last
                    \* returned; dropped when another handler runs
    result          \* the value the call returned

\* The labeling session (LabelingMode of src/ui/labeling_mode.py, text
\* category).  Scene coordinates are display pixels.
VARIABLES
    region_files,          \* the region files on disk, sorted
    templates,             \* the template files TemplateManager has written
    app_running,           \* FALSE once a handler raised
    handler_calls,         \* user actions handled so far
    current_region_files,  \* LabelingMode fields
    current_file_index,
    current_image,
    current_text,
    symbol_rects,
    selected_symbol_index,
    display_scale,
    image_scene,           \* [pixmap, rects]: what the QGraphicsScene holds
    text_input,            \* widgets
    symbol_width_spin,
    symbol_height_spin,
    symbol_x_spin,
    symbol_y_spin,
    symbol_w_spin,
    symbol_h_spin,
    text_save_btn

\* The screenshot session (ScreenshotMode of src/ui/screenshot_mode.py with
\* its WindowManager) and the windows of the desktop.
VARIABLES
    is_capturing,          \* ScreenshotMode fields
    screenshot_count,
    capture_timer,         \* [active, interval]: the QTimer of the captures
    start_stop_btn,        \* whether the start/stop button is enabled
    interval_spin,         \* [value, enabled]
    hwnd,                  \* WindowManager.hwnd, 0 for None
    windows                \* the handles of the windows that exist

splitterArgs == <<pc, self, image, min_gap, bboxes, max_gap, use_projection>>

splitterVars == <<splitterArgs, locals, result>>

labelingVars ==
    <<region_files, templates, app_running, handler_calls,
      current_region_files, current_file_index, current_image, current_text,
      symbol_rects,
      selected_symbol_index, display_scale, image_scene, text_input,
      symbol_width_spin, symbol_height_spin, symbol_x_spin, symbol_y_spin,
      symbol_w_spin, symbol_h_spin, text_save_btn>>

screenshotVars ==
    <<is_capturing, screenshot_count, capture_timer, start_stop_btn,
      interval_spin, hwnd, windows>>

vars == <<splitterVars, labelingVars, screenshotVars>>

----------------------------------------------------------------------------
(* Bounds of the model. *)

\* widest mask handed to split_by_projection
MaxWidth == 5
\* largest min_gap argument of split_by_projection
MaxMinGap == 2
\* most boxes handed to merge_close_boxes
MaxBoxes == 3
\* largest max_gap argument of merge_close_boxes
MaxGapArg == 1

\* Heights of the masks handed to split_by_projection: 3 rows, where any
\* ink pixel makes a column count as ink, and 40 rows, where the 5% noise
\* threshold is 2 pixels.
MaskHeights == {3, 40}
\* The ink rows a mask column may have: none, one pixel, two adjacent
\* pixels, two pixels with a hole between them, three pixels.
ColumnShapes == {{}, {1}, {0, 1}, {0, 2}, {0, 1, 2}}
\* The SymbolSplitter instances: the defaults of __init__ and one that
\* filters by width rather than height.
Splitters == {[min_width |-> 1, min_height |-> 2],
              [min_width |-> 2, min_height |-> 1]}
\* widest image handed to split_to_symbols
MaxImageWidth == 3
\* Height of the images handed to split_to_symbols, the dark rows an image
\* column may have, and the (text, background) gray levels of an image.
ImageHeight == 5
ImageColumnShapes == {{}, {0, 1}, {3, 4}, {0, 1, 3, 4}, {4}, {0, 1, 2, 3, 4}}
Palettes == {<<0, 3>>, <<1, 2>>, <<2, 1>>}
\* most user actions handled in a session
MaxHandlerCalls == 7
\* most region files on disk
MaxFiles == 2
\* most template files written in a session
MaxTemplates == 2
\* The texts typed into text_input, the scene positions a rectangle is
\* dragged to, the default symbol sizes set, and the values typed into the
\* spin boxes of the selected symbol.
TextInputs == {<<>>, <<"7">>, <<" ", "a", ".">>, <<"$", "U+044F">>, <<"U+00B2">>}
DragPositions == {<<-7, -7>>, <<20, 4>>, <<200, 130>>}
SymbolSizes == {<<15, 20>>, <<3, 4>>}
SpinEdits == {2}
\* The <<x, w>> and <<y, h>> extents of the boxes handed to
\* merge_close_boxes: column extents that nest, overlap, touch and lie one
\* or two pixels apart; row extents that overlap, touch and lie apart.
BoxColumnExtents == {<<0, 1>>, <<0, 2>>, <<1, 2>>, <<3, 1>>, <<4, 1>>}
BoxRowExtents == {<<0, 2>>, <<1, 2>>, <<3, 1>>}

----------------------------------------------------------------------------
(* Arithmetic helpers (Python's min, max, abs). *)

Min(a, b) == IF a <= b THEN a ELSE b
Max(a, b) == IF a >= b THEN a ELSE b
Abs(a) == IF a < 0 THEN -a ELSE a

RECURSIVE MinOf(_)
MinOf(S) == LET a == CHOOSE e \in S : TRUE
            IN IF S = {a} THEN a ELSE Min(a, MinOf(S \ {a}))

RECURSIVE MaxOf(_)
MaxOf(S) == LET a == CHOOSE e \in S : TRUE
            IN IF S = {a} THEN a ELSE Max(a, MaxOf(S \ {a}))

Front(s) == SubSeq(s, 1, Len(s) - 1)
Last(s) == s[Len(s)]

----------------------------------------------------------------------------
(* SymbolSplitter.sort_boxes_left_to_right and the sort of                 *)
(* merge_close_boxes: Python's sorted(bboxes, key=lambda b: b[0]), a       *)
(* stable sort on x.                                                       *)

InsertByX(s, b) ==
    LET k == Cardinality({i \in 1..Len(s) : s[i][1] <= b[1]})
    IN SubSeq(s, 1, k) \o <<b>> \o SubSeq(s, k + 1, Len(s))

RECURSIVE sort_boxes_left_to_right(_)
sort_boxes_left_to_right(bs) ==
    IF bs = <<>> THEN <<>>
    ELSE InsertByX(sort_boxes_left_to_right(Front(bs)), Last(bs))

----------------------------------------------------------------------------
(* SymbolSplitter._merge_box_group *)

(* _merge_box_group returning the far corner (max_x, max_y) where the      *)
(* size (max_x - min_x, max_y - min_y) belongs.                            *)
merge_box_group_Corners(boxes) ==
    IF boxes = <<>> THEN <<0, 0, 0, 0>>
    ELSE LET I == 1..Len(boxes)
             min_x == MinOf({boxes[i][1] : i \in I})
             min_y == MinOf({boxes[i][2] : i \in I})
             max_x == MaxOf({boxes[i][1] + boxes[i][3] : i \in I})
             max_y == MaxOf({boxes[i][2] + boxes[i][4] : i \in I})
         IN <<min_x, min_y, max_x, max_y>>

merge_box_group(boxes) ==
    IF boxes = <<>> THEN <<0, 0, 0, 0>>
    ELSE LET I == 1..Len(boxes)
             min_x == MinOf({boxes[i][1] : i \in I})
             min_y == MinOf({boxes[i][2] : i \in I})
             max_x == MaxOf({boxes[i][1] + boxes[i][3] : i \in I})
             max_y == MaxOf({boxes[i][2] + boxes[i][4] : i \in I})
         IN <<min_x, min_y, max_x - min_x, max_y - min_y>>

(* SymbolSplitter.merge_close_boxes, the test of one box against one       *)
(* member of the current group (lines 170-178).                            *)

x_gap(box, group_box) ==
    Min(Abs(box[1] - (group_box[1] + group_box[3])),
        Abs(group_box[1] - (box[1] + box[3])))

(* y_overlap with <= for <: row ranges that only touch do not overlap.     *)
y_overlap_Strict(box, group_box) ==
    ~(box[2] + box[4] <= group_box[2] \/ group_box[2] + group_box[4] <= box[2])

y_overlap(box, group_box) ==
    ~(box[2] + box[4] < group_box[2] \/ group_box[2] + group_box[4] < box[2])

(* should_merge with x_gap < max_gap for x_gap <= max_gap.                 *)
should_merge_Below(box, current_group, g) ==
    \E i \in 1..Len(current_group) :
        x_gap(box, current_group[i]) < g /\ y_overlap(box, current_group[i])

should_merge(box, current_group, g) ==
    \E i \in 1..Len(current_group) :
        x_gap(box, current_group[i]) <= g /\ y_overlap(box, current_group[i])

(* The loop without the flush of the last group (lines 189-191).           *)
RECURSIVE MergeLoop_NoFinalFlush(_, _, _, _)
MergeLoop_NoFinalFlush(rest, current_group, merged, g) ==
    IF rest = <<>> THEN merged
    ELSE IF should_merge(Head(rest), current_group, g)
         THEN MergeLoop_NoFinalFlush(Tail(rest), Append(current_group, Head(rest)),
                                     merged, g)
         ELSE MergeLoop_NoFinalFlush(Tail(rest), <<Head(rest)>>,
                                     Append(merged, merge_box_group(current_group)), g)

(* The loop over sorted_boxes[1:] and the final flush. *)
RECURSIVE MergeLoop(_, _, _, _)
MergeLoop(rest, current_group, merged, g) ==
    IF rest = <<>> THEN Append(merged, merge_box_group(current_group))
    ELSE IF should_merge(Head(rest), current_group, g)
         THEN MergeLoop(Tail(rest), Append(current_group, Head(rest)), merged, g)
         ELSE MergeLoop(Tail(rest), <<Head(rest)>>,
                        Append(merged, merge_box_group(current_group)), g)

merge_close_boxes(bs, g) ==
    IF bs = <<>> THEN <<>>
    ELSE LET sorted_boxes == sort_boxes_left_to_right(bs)
         IN MergeLoop(Tail(sorted_boxes), <<Head(sorted_boxes)>>, <<>>, g)

----------------------------------------------------------------------------
(* Inputs of the merge_close_boxes specification. *)

InputBoxes ==
    {<<c[1], r[1], c[2], r[2]>> : c \in BoxColumnExtents, r \in BoxRowExtents}

NoImage == [height |-> 0, width |-> 0, pix |-> <<>>]

\* Python's None, for current_image
None == [file |-> 0, height |-> 0, width |-> 0]

(* LabelingMode.__init__ and setup_ui: the fields and widgets of a session *)
(* that has loaded nothing, with no region files on disk.                  *)
LabelingModeConstructed ==
    /\ app_running = TRUE
    /\ handler_calls = 0
    /\ templates = <<>>
    /\ current_region_files = <<>>
    /\ current_file_index = -1
    /\ current_image = None
    /\ current_text = <<>>
    /\ symbol_rects = <<>>
    /\ selected_symbol_index = -1
    /\ display_scale = 3
    /\ image_scene = [pixmap |-> FALSE, rects |-> 0]
    /\ text_input = <<>>
    /\ symbol_width_spin = 15
    /\ symbol_height_spin = 20
    /\ symbol_x_spin = 0
    /\ symbol_y_spin = 0
    /\ symbol_w_spin = 1
    /\ symbol_h_spin = 1
    /\ text_save_btn = FALSE

(* ScreenshotMode.__init__ and setup_ui, and WindowManager.__init__: no    *)
(* capture running, no window found; the interval box shows the configured *)
(* interval (2000 ms unless configured).                                   *)
ScreenshotModeConstructed ==
    /\ is_capturing = FALSE
    /\ screenshot_count = 0
    /\ capture_timer = [active |-> FALSE, interval |-> 0]
    /\ start_stop_btn = FALSE
    /\ interval_spin = [value |-> 2000, enabled |-> TRUE]
    /\ hwnd = 0

NoSession ==
    /\ LabelingModeConstructed
    /\ region_files = <<>>
    /\ ScreenshotModeConstructed
    /\ windows = {}
NoLocals == [binary |-> NoImage, bboxes_projection |-> <<>>, bboxes_contours |-> <<>>]
DefaultSplitter == [min_width |-> 1, min_height |-> 2]

InitMerge ==
    /\ pc = "ready"
    /\ \E n \in 0..MaxBoxes : bboxes \in [1..n -> InputBoxes]
    /\ max_gap \in 0..MaxGapArg
    /\ self = DefaultSplitter
    /\ image = NoImage
    /\ min_gap = 1
    /\ use_projection = TRUE
    /\ locals = NoLocals
    /\ result = <<>>
    /\ NoSession

CallMergeCloseBoxes ==
    /\ pc = "ready"
    /\ pc' = "done"
    /\ result' = merge_close_boxes(bboxes, max_gap)
    /\ UNCHANGED <<self, image, min_gap, bboxes, max_gap, use_projection, locals>>
    /\ UNCHANGED <<labelingVars, screenshotVars>>

NextMerge == CallMergeCloseBoxes

SpecMerge == InitMerge /\ [][NextMerge]_vars

----------------------------------------------------------------------------
(* SymbolSplitter.split_by_projection *)

INK == 255

Rows(img) == 0..(img.height - 1)
Cols(img) == 0..(img.width - 1)

(* vertical_proj[x] = np.sum(image, axis=0)[x] / 255 (line 54): the mask   *)
(* holds 0 and 255 only, so this is the number of white pixels of the      *)
(* column.                                                                 *)
vertical_proj(img, x) == Cardinality({y \in Rows(img) : img.pix[x][y] = INK})

(* is_gap = vertical_proj[x] <= height * 0.05 (lines 58, 66), in whole     *)
(* numbers: 20 * vertical_proj[x] <= height.                               *)
is_gap(img, x) == 20 * vertical_proj(img, x) <= img.height

(* y_indices = np.where(horizontal_proj > 0)[0] for image[:, start_x:end_x]*)
(* (lines 80-83, 103-106): the rows with a white pixel in the span.        *)
y_indices(img, start_x, end_x) ==
    {y \in Rows(img) : \E x \in start_x..(end_x - 1) : img.pix[x][y] = INK}

(* close_symbol with bottom_y = y_indices[-1], the "+ 1" of lines 86 and   *)
(* 109 forgotten.                                                          *)
close_symbol_BottomInclusive(slf, img, start_x, end_x, bbs) ==
    LET ys == y_indices(img, start_x, end_x)
    IN IF ys = {} THEN bbs
       ELSE LET top_y == MinOf(ys)
                bottom_y == MaxOf(ys)
                w == end_x - start_x
                h == bottom_y - top_y
            IN IF w >= slf.min_width /\ h >= slf.min_height
               THEN Append(bbs, <<start_x, top_y, w, h>>)
               ELSE bbs

(* close_symbol with the box spanning every row of the mask, whatever rows *)
(* of the span hold ink.                                                   *)
close_symbol_FullHeight(slf, img, start_x, end_x, bbs) ==
    LET ys == y_indices(img, start_x, end_x)
    IN IF ys = {} THEN bbs
       ELSE LET top_y == 0
                bottom_y == img.height
                w == end_x - start_x
                h == bottom_y - top_y
            IN IF w >= slf.min_width /\ h >= slf.min_height
               THEN Append(bbs, <<start_x, top_y, w, h>>)
               ELSE bbs

(* close_symbol with w = end_x - start_x + 1, as if end_x were the last    *)
(* column of the span and not the column after it.                         *)
close_symbol_WidthInclusive(slf, img, start_x, end_x, bbs) ==
    LET ys == y_indices(img, start_x, end_x)
    IN IF ys = {} THEN bbs
       ELSE LET top_y == MinOf(ys)
                bottom_y == MaxOf(ys) + 1
                w == end_x - start_x + 1
                h == bottom_y - top_y
            IN IF w >= slf.min_width /\ h >= slf.min_height
               THEN Append(bbs, <<start_x, top_y, w, h>>)
               ELSE bbs

(* Lines 79-92 and 102-115: bounds of the span [start_x, end_x) and the    *)
(* size filter; returns the box list with the span's box appended or not.  *)
close_symbol(slf, img, start_x, end_x, bbs) ==
    LET ys == y_indices(img, start_x, end_x)
    IN IF ys = {} THEN bbs
       ELSE LET top_y == MinOf(ys)
                bottom_y == MaxOf(ys) + 1
                w == end_x - start_x
                h == bottom_y - top_y
            IN IF w >= slf.min_width /\ h >= slf.min_height
               THEN Append(bbs, <<start_x, top_y, w, h>>)
               ELSE bbs

ScanStart == [in_symbol |-> FALSE, start_x |-> 0, gap_count |-> 0, bboxes |-> <<>>]

(* ScanColumn with end_x = x - gap_count, the "+ 1" of line 77 forgotten.  *)
ScanColumn_EndBeforeGap(slf, img, mg, st, x) ==
    LET gap == is_gap(img, x)
    IN IF ~gap /\ ~st.in_symbol
       THEN [st EXCEPT !.in_symbol = TRUE, !.start_x = x, !.gap_count = 0]
       ELSE IF gap /\ st.in_symbol
       THEN LET gap_count == st.gap_count + 1
            IN IF gap_count >= mg
               THEN [st EXCEPT !.in_symbol = FALSE, !.gap_count = 0,
                               !.bboxes = close_symbol(slf, img, st.start_x,
                                                       x - gap_count, st.bboxes)]
               ELSE [st EXCEPT !.gap_count = gap_count]
       ELSE IF ~gap /\ st.in_symbol
       THEN [st EXCEPT !.gap_count = 0]
       ELSE st

(* ScanColumn without the last branch (lines 96-98): an ink column inside  *)
(* a symbol does not reset gap_count.                                      *)
ScanColumn_NoReset(slf, img, mg, st, x) ==
    LET gap == is_gap(img, x)
    IN IF ~gap /\ ~st.in_symbol
       THEN [st EXCEPT !.in_symbol = TRUE, !.start_x = x, !.gap_count = 0]
       ELSE IF gap /\ st.in_symbol
       THEN LET gap_count == st.gap_count + 1
            IN IF gap_count >= mg
               THEN [st EXCEPT !.in_symbol = FALSE, !.gap_count = 0,
                               !.bboxes = close_symbol(slf, img, st.start_x,
                                                       x - gap_count + 1, st.bboxes)]
               ELSE [st EXCEPT !.gap_count = gap_count]
       ELSE st

(* One iteration of the loop over the columns (lines 65-98). *)
ScanColumn(slf, img, mg, st, x) ==
    LET gap == is_gap(img, x)
    IN IF ~gap /\ ~st.in_symbol
       THEN [st EXCEPT !.in_symbol = TRUE, !.start_x = x, !.gap_count = 0]
       ELSE IF gap /\ st.in_symbol
       THEN LET gap_count == st.gap_count + 1
            IN IF gap_count >= mg
               THEN [st EXCEPT !.in_symbol = FALSE, !.gap_count = 0,
                               !.bboxes = close_symbol(slf, img, st.start_x,
                                                       x - gap_count + 1, st.bboxes)]
               ELSE [st EXCEPT !.gap_count = gap_count]
       ELSE IF ~gap /\ st.in_symbol
       THEN [st EXCEPT !.gap_count = 0]
       ELSE st

(* The scan state after columns 0..x-1. *)
RECURSIVE ScanTo(_, _, _, _)
ScanTo(slf, img, mg, x) ==
    IF x = 0 THEN ScanStart
    ELSE ScanColumn(slf, img, mg, ScanTo(slf, img, mg, x - 1), x - 1)

(* split_by_projection closing the symbol open at the end of the scan at  *)
(* the last column, end_x = width - 1 for the end_x = width of line 102.   *)
split_by_projection_EndAtLastColumn(slf, img, mg) ==
    LET st == ScanTo(slf, img, mg, img.width)
    IN IF st.in_symbol
       THEN close_symbol(slf, img, st.start_x, img.width - 1, st.bboxes)
       ELSE st.bboxes

(* Lines 53-117: the scan and the close of the symbol open at its end     *)
(* (lines 100-115).                                                        *)
split_by_projection(slf, img, mg) ==
    LET st == ScanTo(slf, img, mg, img.width)
    IN IF st.in_symbol
       THEN close_symbol(slf, img, st.start_x, img.width, st.bboxes)
       ELSE st.bboxes

----------------------------------------------------------------------------
(* Inputs of the split_by_projection specification: binary masks. *)

MaskColumn(h, shape) == [y \in 0..(h - 1) |-> IF y \in shape THEN INK ELSE 0]

\* the h-row mask whose columns, left to right, have the ink rows shapes[1..]
Mask(h, shapes) ==
    [height |-> h, width |-> Len(shapes),
     pix |-> [x \in 0..(Len(shapes) - 1) |-> MaskColumn(h, shapes[x + 1])]]

InitProjection ==
    /\ pc = "ready"
    /\ \E h \in MaskHeights, w \in 1..MaxWidth :
          \E shapes \in [1..w -> ColumnShapes] : image = Mask(h, shapes)
    /\ self \in Splitters
    /\ min_gap \in 1..MaxMinGap
    /\ bboxes = <<>>
    /\ max_gap = 1
    /\ use_projection = TRUE
    /\ locals = NoLocals
    /\ result = <<>>
    /\ NoSession

CallSplitByProjection ==
    /\ pc = "ready"
    /\ pc' = "done"
    /\ result' = split_by_projection(self, image, min_gap)
    /\ UNCHANGED <<self, image, min_gap, bboxes, max_gap, use_projection, locals>>
    /\ UNCHANGED <<labelingVars, screenshotVars>>

NextProjection == CallSplitByProjection

SpecProjection == InitProjection /\ [][NextProjection]_vars

----------------------------------------------------------------------------
(* SymbolSplitter.preprocess_image on a grayscale image:                   *)
(* cv2.threshold(gray, 0, 255, THRESH_BINARY_INV + THRESH_OTSU).           *)

Pixels(img) == Cols(img) \X Rows(img)
GrayLevelsOf(img) == {img.pix[p[1]][p[2]] : p \in Pixels(img)}

RECURSIVE SumOf(_, _)
SumOf(img, P) ==
    IF P = {} THEN 0
    ELSE LET p == CHOOSE e \in P : TRUE
         IN img.pix[p[1]][p[2]] + SumOf(img, P \ {p})

(* Otsu's threshold as OpenCV computes it: the first level i that          *)
(* maximises the between-class variance q1*q2*(mu1 - mu2)^2 of the classes *)
(* "<= i" and "> i", 0 when no level separates two non-empty classes.      *)
(* With n1, n2 the class sizes and s1, s2 the class sums the variance is   *)
(* (s1*n2 - s2*n1)^2 / (N^2*n1*n2), compared here by cross-multiplying.    *)
OtsuThreshold(img) ==
    LET levels == GrayLevelsOf(img)
        low(i) == {p \in Pixels(img) : img.pix[p[1]][p[2]] <= i}
        high(i) == Pixels(img) \ low(i)
        n1(i) == Cardinality(low(i))
        n2(i) == Cardinality(high(i))
        num(i) == LET a == SumOf(img, low(i)) * n2(i) - SumOf(img, high(i)) * n1(i)
                  IN a * a
        den(i) == n1(i) * n2(i)
        candidates == {i \in levels : n2(i) > 0}
        best == {i \in candidates :
                    \A j \in candidates : num(j) * den(i) <= num(i) * den(j)}
    IN IF candidates = {} THEN 0 ELSE MinOf(best)

(* THRESH_BINARY_INV: a pixel above the threshold becomes 0, every other   *)
(* pixel 255.                                                              *)
preprocess_image(img) ==
    LET thresh == OtsuThreshold(img)
    IN [img EXCEPT !.pix = [x \in Cols(img) |-> [y \in Rows(img) |->
                                IF img.pix[x][y] > thresh THEN 0 ELSE INK]]]

----------------------------------------------------------------------------
(* SymbolSplitter.find_contours: cv2.findContours(binary, RETR_EXTERNAL,   *)
(* CHAIN_APPROX_SIMPLE) and cv2.boundingRect.  A contour is the outer      *)
(* border of an 8-connected component of non-zero pixels; RETR_EXTERNAL    *)
(* keeps the components that touch the outer background, the zero pixels   *)
(* 4-connected to the outside of the image.                                *)

Foreground(binary) == {p \in Pixels(binary) : binary.pix[p[1]][p[2]] # 0}

Adjacent8(p, q) == p # q /\ Abs(p[1] - q[1]) <= 1 /\ Abs(p[2] - q[2]) <= 1
Adjacent4(p, q) == Abs(p[1] - q[1]) + Abs(p[2] - q[2]) = 1

RECURSIVE Grow8(_, _)
Grow8(S, comp) ==
    LET next == comp \cup {q \in S : \E p \in comp : Adjacent8(p, q)}
    IN IF next = comp THEN comp ELSE Grow8(S, next)

RECURSIVE Grow4(_, _)
Grow4(S, comp) ==
    LET next == comp \cup {q \in S : \E p \in comp : Adjacent4(p, q)}
    IN IF next = comp THEN comp ELSE Grow4(S, next)

OuterBackground(binary) ==
    LET padded == (-1..binary.width) \X (-1..binary.height)
        border == padded \ Pixels(binary)
    IN Grow4(padded \ Foreground(binary), border)

ExternalComponents(binary) ==
    LET fg == Foreground(binary)
        outer == OuterBackground(binary)
    IN {c \in {Grow8(fg, {p}) : p \in fg} :
           \E p \in c : \E q \in outer : Adjacent4(p, q)}

boundingRect(contour) ==
    LET x0 == MinOf({p[1] : p \in contour})
        y0 == MinOf({p[2] : p \in contour})
    IN <<x0, y0, MaxOf({p[1] : p \in contour}) - x0 + 1,
                 MaxOf({p[2] : p \in contour}) - y0 + 1>>

(* The orders in which cv2.findContours may list the contours. *)
ContourLists(binary) ==
    LET cs == ExternalComponents(binary)
        n == Cardinality(cs)
    IN {l \in [1..n -> cs] : \A i \in 1..n : \A j \in 1..n : l[i] = l[j] => i = j}

(* find_contours filtering by height only, the width test of line 139    *)
(* left out.                                                               *)
RECURSIVE find_contours_HeightOnly(_, _)
find_contours_HeightOnly(slf, contours) ==
    IF contours = <<>> THEN <<>>
    ELSE LET rect == boundingRect(Last(contours))
             before == find_contours_HeightOnly(slf, Front(contours))
         IN IF rect[4] >= slf.min_height
            THEN Append(before, rect)
            ELSE before

(* The loop of lines 134-140 over the contours found. *)
RECURSIVE find_contours(_, _)
find_contours(slf, contours) ==
    IF contours = <<>> THEN <<>>
    ELSE LET rect == boundingRect(Last(contours))
             before == find_contours(slf, Front(contours))
         IN IF rect[3] >= slf.min_width /\ rect[4] >= slf.min_height
            THEN Append(before, rect)
            ELSE before

----------------------------------------------------------------------------
(* SymbolSplitter.extract_symbols and split_to_symbols *)

(* image[y:y+h, x:x+w].copy() for x, y >= 0: a numpy slice stops at the   *)
(* edge of the array.                                                      *)
Crop(img, bbox) ==
    LET x0 == Min(bbox[1], img.width)
        y0 == Min(bbox[2], img.height)
        w == Max(0, Min(bbox[1] + bbox[3], img.width) - x0)
        h == Max(0, Min(bbox[2] + bbox[4], img.height) - y0)
    IN [height |-> h, width |-> w,
        pix |-> [x \in 0..(w - 1) |-> [y \in 0..(h - 1) |->
                    img.pix[x0 + x][y0 + y]]]]

extract_symbols(img, bbs) == [i \in 1..Len(bbs) |-> <<Crop(img, bbs[i]), bbs[i]>>]

(* The choice with the projection result taken whenever it is not empty,   *)
(* whatever the contour segmenter found.                                   *)
choose_bboxes_ProjectionFirst(bboxes_projection, bboxes_contours) ==
    IF Len(bboxes_projection) > 0 THEN bboxes_projection
    ELSE bboxes_contours

(* The choice with its first test turned from > to >=, so that a tie goes  *)
(* to the contour result.                                                  *)
choose_bboxes_TieToContours(bboxes_projection, bboxes_contours) ==
    IF Len(bboxes_contours) >= Len(bboxes_projection) THEN bboxes_contours
    ELSE IF Len(bboxes_projection) > 0 THEN bboxes_projection
    ELSE bboxes_contours

(* Lines 273-280: the choice between the two results. *)
choose_bboxes(bboxes_projection, bboxes_contours) ==
    IF Len(bboxes_contours) > Len(bboxes_projection) THEN bboxes_contours
    ELSE IF Len(bboxes_projection) > 0 THEN bboxes_projection
    ELSE bboxes_contours

(* The locals of split_to_symbols before the choice (lines 260-271);       *)
(* contours is what cv2.findContours returned for the binary image,        *)
(* bboxes_found the value of bboxes_contours between lines 270 and 271.    *)
split_locals(slf, img, use_proj, contours) ==
    LET binary == preprocess_image(img)
    IN [binary |-> binary,
        bboxes_projection |-> IF use_proj THEN split_by_projection(slf, binary, 1)
                              ELSE <<>>,
        contours |-> contours,
        bboxes_found |-> find_contours(slf, contours),
        bboxes_contours |-> merge_close_boxes(find_contours(slf, contours), 1)]

(* split_to_symbols handing the binary image of preprocess_image to        *)
(* extract_symbols where the input image belongs.                          *)
split_to_symbols_CropsBinary(img, lcl) ==
    extract_symbols(lcl.binary, sort_boxes_left_to_right(
        choose_bboxes(lcl.bboxes_projection, lcl.bboxes_contours)))

(* Lines 273-288. *)
split_to_symbols(img, lcl) ==
    extract_symbols(img, sort_boxes_left_to_right(
        choose_bboxes(lcl.bboxes_projection, lcl.bboxes_contours)))

----------------------------------------------------------------------------
(* Inputs of the split_to_symbols specification: grayscale images.         *)

GrayColumn(shape, palette) ==
    [y \in 0..(ImageHeight - 1) |-> IF y \in shape THEN palette[1] ELSE palette[2]]

\* the image whose columns, left to right, have the dark rows shapes[1..]
GrayImage(shapes, palette) ==
    [height |-> ImageHeight, width |-> Len(shapes),
     pix |-> [x \in 0..(Len(shapes) - 1) |-> GrayColumn(shapes[x + 1], palette)]]

InitSplit ==
    /\ pc = "ready"
    /\ \E palette \in Palettes, w \in 1..MaxImageWidth :
          \E shapes \in [1..w -> ImageColumnShapes] : image = GrayImage(shapes, palette)
    /\ self \in Splitters
    /\ use_projection \in BOOLEAN
    /\ min_gap = 1
    /\ bboxes = <<>>
    /\ max_gap = 1
    /\ locals = NoLocals
    /\ result = <<>>
    /\ NoSession

CallSplitToSymbols ==
    /\ pc = "ready"
    /\ pc' = "done"
    /\ \E contours \in ContourLists(preprocess_image(image)) :
          /\ locals' = split_locals(self, image, use_projection, contours)
          /\ result' = split_to_symbols(image, locals')
    /\ UNCHANGED <<self, image, min_gap, bboxes, max_gap, use_projection>>
    /\ UNCHANGED <<labelingVars, screenshotVars>>

NextSplit == CallSplitToSymbols

SpecSplit == InitSplit /\ [][NextSplit]_vars

----------------------------------------------------------------------------
(* binarize_image of utils/image_utils.py, and the inputs of the           *)
(* specification of the two binarizers.                                    *)

\* the pixels of the blockSize x blockSize window around p that lie in the
\* image; BORDER_REPLICATE fills the rest of the window with copies of them
Window(img, p, blockSize) ==
    LET r == (blockSize - 1) \div 2
    IN {q \in Pixels(img) : Abs(q[1] - p[1]) <= r /\ Abs(q[2] - p[2]) <= r}

(* The values the Gaussian-weighted mean of the window around p, rounded  *)
(* to 8 bits, can take: the weights are positive and sum to 1, so it lies  *)
(* between the darkest and the brightest pixel of the window.              *)
LocalMeans(img, p, blockSize) ==
    LET levels == {img.pix[q[1]][q[2]] : q \in Window(img, p, blockSize)}
    IN MinOf(levels)..MaxOf(levels)

(* cv2.adaptiveThreshold(image, 255, ADAPTIVE_THRESH_GAUSSIAN_C,           *)
(* THRESH_BINARY, blockSize, C): a pixel above its local mean minus C      *)
(* becomes 255, every other pixel 0.  The set of the masks it can return.  *)
adaptiveThreshold(img, blockSize, C) ==
    {[img EXCEPT !.pix = pix] : pix \in
        {px \in [Cols(img) -> [Rows(img) -> {0, INK}]] :
            \A p \in Pixels(img) : \E mean \in LocalMeans(img, p, blockSize) :
                px[p[1]][p[2]] = IF img.pix[p[1]][p[2]] > mean - C THEN INK ELSE 0}}

\* cv2.threshold(image, thresh, 255, THRESH_BINARY)
threshold_binary(img, thresh) ==
    [img EXCEPT !.pix = [x \in Cols(img) |-> [y \in Rows(img) |->
                            IF img.pix[x][y] > thresh THEN INK ELSE 0]]]

\* the masks binarize_image(image, method) can return
binarize_image(img, method) ==
    IF method = "adaptive" THEN adaptiveThreshold(img, 11, 2)
    ELSE IF method = "otsu" THEN {threshold_binary(img, OtsuThreshold(img))}
    ELSE {threshold_binary(img, 127)}

\* the widest image handed to the binarizers, the heights of these images
\* and their gray levels: black, the level of the simple threshold, light
MaxBinarizeWidth == 2
BinarizeHeights == {2}
BinarizeLevels == {0, 127, 200}
BinarizeMethods == {"adaptive", "otsu", "threshold"}

InitBinarize ==
    /\ pc = "ready"
    /\ \E h \in BinarizeHeights, w \in 1..MaxBinarizeWidth :
          \E pix \in [0..(w - 1) -> [0..(h - 1) -> BinarizeLevels]] :
              image = [height |-> h, width |-> w, pix |-> pix]
    /\ self = DefaultSplitter
    /\ min_gap = 1
    /\ bboxes = <<>>
    /\ max_gap = 1
    /\ use_projection = TRUE
    /\ locals = NoLocals
    /\ result = <<>>
    /\ NoSession

CallPreprocessImage ==
    /\ pc = "ready"
    /\ pc' = "done"
    /\ locals' = [policy |-> "preprocess_image", method |-> "otsu"]
    /\ result' = preprocess_image(image)
    /\ UNCHANGED <<self, image, min_gap, bboxes, max_gap, use_projection>>
    /\ UNCHANGED <<labelingVars, screenshotVars>>

CallBinarizeImage ==
    /\ pc = "ready"
    /\ pc' = "done"
    /\ \E method \in BinarizeMethods :
          /\ locals' = [policy |-> "binarize_image", method |-> method]
          /\ result' \in binarize_image(image, method)
    /\ UNCHANGED <<self, image, min_gap, bboxes, max_gap, use_projection>>
    /\ UNCHANGED <<labelingVars, screenshotVars>>

NextBinarize == CallPreprocessImage \/ CallBinarizeImage

SpecBinarize == InitBinarize /\ [][NextBinarize]_vars

----------------------------------------------------------------------------
(* The text labeling session of LabelingMode (src/ui/labeling_mode.py).    *)
(* A text is a sequence of one-character strings.                          *)

\* what cv2.imread returns for region file f: its number and its size
RegionImage(f) ==
    IF f % 2 = 1 THEN [file |-> f, height |-> 40, width |-> 60]
    ELSE [file |-> f, height |-> 9, width |-> 12]

\* load_image(filepath): the image, or None when it cannot be read
load_image(files, index) ==
    IF index < 0 \/ index >= Len(files) THEN {None}
    ELSE {RegionImage(files[index + 1]), None}

\* Python's int(v / scale) for a scale > 0: truncation toward zero
int_div(v, scale) == IF v >= 0 THEN v \div scale ELSE -((-v) \div scale)

\* QSpinBox.setValue: the value is brought into the spin box's range
setValue(v, minimum, maximum) == Max(minimum, Min(v, maximum))

\* str.strip()
RECURSIVE lstrip(_)
lstrip(text) ==
    IF text # <<>> /\ Head(text) = " " THEN lstrip(Tail(text)) ELSE text
RECURSIVE rstrip(_)
rstrip(text) ==
    IF text # <<>> /\ Last(text) = " " THEN rstrip(Front(text)) ELSE text
strip(text) == rstrip(lstrip(text))

\* str.isdigit, str.isalpha, str.isalnum and ord(char) < 128 on the
\* characters of the model.  A character outside ASCII is written by its
\* code point: "U+044F" is the Cyrillic small letter ya, "U+00B2" the
\* superscript two (a digit for str.isdigit).
isdigit(char) ==
    char \in {"0", "1", "2", "3", "4", "5", "6", "7", "8", "9", "U+00B2"}
isalpha(char) == char \in {"a", "b", "K", "Q", "U+044F"}
isalnum(char) == isdigit(char) \/ isalpha(char)
is_ascii(char) == char \notin {"U+044F", "U+00B2"}
\* f"{ord(char):04x}"
code_point(char) ==
    CASE char = " " -> "0020" [] char = "$" -> "0024" [] char = "." -> "002e"
      [] char = "U+044F" -> "044f" [] char = "U+00B2" -> "00b2"
      [] OTHER -> "003f"

\* TemplateManager.DIGITS
DIGITS == {"0", "1", "2", "3", "4", "5", "6", "7", "8", "9", "."}

\* the value of a save_*_template call that wrote nothing
NoPath == [category |-> "", stem |-> ""]

(* save_digit_template with the special naming of the dot left out.        *)
save_digit_template_DotLiteral(digit, written) ==
    IF digit \notin DIGITS THEN NoPath
    ELSE IF written THEN [category |-> "digits", stem |-> digit]
         ELSE NoPath

(* TemplateManager.save_digit_template and save_symbol_template: the       *)
(* category directory and the file name up to its time stamp; written      *)
(* tells whether cv2.imwrite succeeded.                                    *)
save_digit_template(digit, written) ==
    IF digit \notin DIGITS THEN NoPath
    ELSE IF written
         THEN [category |-> "digits", stem |-> IF digit = "." THEN "dot" ELSE digit]
         ELSE NoPath

save_symbol_template(symbol, category, written) ==
    IF category \notin {"letters_lat", "letters_cyr", "special"} THEN NoPath
    ELSE IF written
         THEN [category |-> category,
               stem |-> IF isalnum(symbol) THEN symbol
                        ELSE "char_" \o code_point(symbol)]
         ELSE NoPath

\* DraggableSymbolRect(x, y, w, h, index): the geometry goes to rect(), the
\* item's position stays at the origin
DraggableSymbolRect(x, y, w, h, index) ==
    [pos |-> <<0, 0>>, rect |-> <<x, y, w, h>>, index |-> index]

\* rect.scenePos() of a top-level item
scenePos(rect) == rect.pos

\* symbol_rects holds items that QGraphicsScene.clear() has deleted
rects_deleted == symbol_rects # <<>> /\ image_scene.rects = 0

\* the frame kept in locals when no handler under study ran last
NoFrame == [handler |-> "none"]

(* display_image and load_current_file: <<current_image, image_scene,      *)
(* display_scale, symbol_rects>> after load_current_file, given what       *)
(* load_image returned.                                                    *)
display_image(img) == <<img, [pixmap |-> TRUE, rects |-> 0], 3, <<>>>>

load_current_file(files, index, loaded, rects, scene) ==
    IF index < 0 \/ index >= Len(files)
    THEN <<current_image, scene, display_scale, rects>>
    ELSE IF loaded # None THEN display_image(loaded)
    ELSE <<None, scene, display_scale, rects>>

sessionVars ==
    <<region_files, templates, app_running, current_region_files,
      current_file_index, current_image, current_text, symbol_rects,
      selected_symbol_index, display_scale, image_scene, text_input,
      symbol_width_spin, symbol_height_spin, symbol_x_spin, symbol_y_spin,
      symbol_w_spin, symbol_h_spin, text_save_btn>>
viewVars == <<current_image, image_scene, display_scale, symbol_rects>>
SetView(after) ==
    /\ current_image' = after[1]
    /\ image_scene' = after[2]
    /\ display_scale' = after[3]
    /\ symbol_rects' = after[4]
spinVars == <<symbol_x_spin, symbol_y_spin, symbol_w_spin, symbol_h_spin>>
sizeVars == <<symbol_width_spin, symbol_height_spin>>

\* the application is running and handles one more user action
Handling ==
    /\ app_running
    /\ handler_calls < MaxHandlerCalls
    /\ handler_calls' = handler_calls + 1
    /\ UNCHANGED <<splitterArgs, result, screenshotVars>>

\* a handler raised: PyQt ends the application
Raise(frame) ==
    /\ app_running' = FALSE
    /\ locals' = frame
    /\ UNCHANGED <<region_files, templates, current_region_files,
                   current_file_index, viewVars, current_text,
                   selected_symbol_index, text_input, sizeVars, spinVars,
                   text_save_btn>>

load_region_files ==
    /\ Handling
    /\ \E loaded \in load_image(region_files, 0) :
          IF region_files = <<>>
          THEN UNCHANGED <<current_region_files, current_file_index, viewVars>>
          ELSE LET after == load_current_file(region_files, 0, loaded,
                                              symbol_rects, image_scene)
               IN /\ current_region_files' = region_files
                  /\ current_file_index' = 0
                  /\ SetView(after)
    /\ locals' = NoFrame
    /\ UNCHANGED <<region_files, templates, app_running, current_text,
                   selected_symbol_index, text_input, sizeVars, spinVars,
                   text_save_btn>>

(* prev_file with the test of line 838 turned from > 0 to >= 0. *)
prev_file_FromFirst ==
    /\ Handling
    /\ \E loaded \in load_image(current_region_files, current_file_index - 1) :
          IF current_file_index >= 0
          THEN /\ current_file_index' = current_file_index - 1
               /\ SetView(load_current_file(current_region_files,
                                                 current_file_index - 1, loaded,
                                                 symbol_rects, image_scene))
          ELSE UNCHANGED <<current_file_index, viewVars>>
    /\ locals' = NoFrame
    /\ UNCHANGED <<region_files, templates, app_running, current_region_files,
                   current_text, selected_symbol_index, text_input, sizeVars,
                   spinVars, text_save_btn>>

prev_file ==
    /\ Handling
    /\ \E loaded \in load_image(current_region_files, current_file_index - 1) :
          IF current_file_index > 0
          THEN /\ current_file_index' = current_file_index - 1
               /\ SetView(load_current_file(current_region_files,
                                                 current_file_index - 1, loaded,
                                                 symbol_rects, image_scene))
          ELSE UNCHANGED <<current_file_index, viewVars>>
    /\ locals' = NoFrame
    /\ UNCHANGED <<region_files, templates, app_running, current_region_files,
                   current_text, selected_symbol_index, text_input, sizeVars,
                   spinVars, text_save_btn>>

next_file ==
    /\ Handling
    /\ \E loaded \in load_image(current_region_files, current_file_index + 1) :
          IF current_file_index < Len(current_region_files) - 1
          THEN /\ current_file_index' = current_file_index + 1
               /\ SetView(load_current_file(current_region_files,
                                                 current_file_index + 1, loaded,
                                                 symbol_rects, image_scene))
          ELSE UNCHANGED <<current_file_index, viewVars>>
    /\ locals' = NoFrame
    /\ UNCHANGED <<region_files, templates, app_running, current_region_files,
                   current_text, selected_symbol_index, text_input, sizeVars,
                   spinVars, text_save_btn>>

\* list.pop(index) and the same file taken off the disk
Without(files, f) == SelectSeq(files, LAMBDA g : g # f)

delete_current_file ==
    /\ Handling
    /\ \E reply \in {"Yes", "No"}, unlinked \in BOOLEAN :
          IF \/ current_file_index < 0
             \/ current_file_index >= Len(current_region_files)
             \/ reply # "Yes"
             \/ ~unlinked
          THEN UNCHANGED <<region_files, current_region_files,
                           current_file_index, viewVars>>
          ELSE LET f == current_region_files[current_file_index + 1]
                   files == Without(current_region_files, f)
                   index == IF current_file_index >= Len(files)
                            THEN Len(files) - 1 ELSE current_file_index
               IN /\ region_files' = Without(region_files, f)
                  /\ current_region_files' = files
                  /\ IF files = <<>>
                     THEN /\ current_file_index' = -1
                          /\ current_image' = None
                          /\ image_scene' = [pixmap |-> FALSE, rects |-> 0]
                          /\ UNCHANGED <<display_scale, symbol_rects>>
                     ELSE /\ current_file_index' = index
                          /\ \E loaded \in load_image(files, index) :
                                SetView(load_current_file(files, index, loaded,
                                                          symbol_rects,
                                                          image_scene))
    /\ locals' = NoFrame
    /\ UNCHANGED <<templates, app_running, current_text, selected_symbol_index,
                   text_input, sizeVars, spinVars, text_save_btn>>


(* The loop of create_symbol_regions with spacing left out of the step.    *)
create_rects_NoSpacing(text, w, h, scale) ==
    [k \in 1..Len(text) |->
        DraggableSymbolRect((10 + (k - 1) * w) * scale, 10 * scale,
                            w * scale, h * scale, k - 1)]

\* the rectangles made for text (lines 728-740): start_x = 10, start_y = 10,
\* spacing = 5
create_rects(text, w, h, scale) ==
    [k \in 1..Len(text) |->
        DraggableSymbolRect((10 + (k - 1) * (w + 5)) * scale, 10 * scale,
                            w * scale, h * scale, k - 1)]

create_symbol_regions ==
    /\ Handling
    /\ LET text == strip(text_input)
           w == symbol_width_spin
           h == symbol_height_spin
       IN IF text = <<>> \/ current_image = None
          THEN UNCHANGED <<current_text, symbol_rects, image_scene,
                           selected_symbol_index, text_save_btn>>
          ELSE /\ current_text' = text
               /\ symbol_rects' = create_rects(text, w, h, display_scale)
               /\ image_scene' = [image_scene EXCEPT !.rects = Len(text)]
               \* symbol_list.clear() reports row -1 to on_symbol_selected
               /\ selected_symbol_index' = -1
               /\ text_save_btn' = TRUE
    /\ locals' = NoFrame
    /\ UNCHANGED <<region_files, templates, app_running, current_region_files,
                   current_file_index, current_image, display_scale, text_input,
                   sizeVars, spinVars>>

apply_symbol_size_to_all ==
    /\ Handling
    /\ IF rects_deleted THEN Raise(NoFrame)
       ELSE /\ symbol_rects' =
                  [k \in 1..Len(symbol_rects) |->
                      [symbol_rects[k] EXCEPT
                          !.rect = <<symbol_rects[k].rect[1], symbol_rects[k].rect[2],
                                     symbol_width_spin * display_scale,
                                     symbol_height_spin * display_scale>>]]
            /\ locals' = NoFrame
            /\ UNCHANGED <<region_files, templates, app_running,
                           current_region_files, current_file_index,
                           current_image, image_scene, display_scale,
                           current_text, selected_symbol_index, text_input,
                           sizeVars, spinVars, text_save_btn>>

(* on_symbol_selected(index): index is a row of symbol_list, which holds   *)
(* one row per character of current_text, or -1.                           *)
on_symbol_selected ==
    /\ Handling
    /\ \E index \in -1..(Len(current_text) - 1) :
          IF index < 0 \/ index >= Len(symbol_rects)
          THEN /\ selected_symbol_index' = -1
               /\ locals' = NoFrame
               /\ UNCHANGED <<region_files, templates, app_running,
                              current_region_files, current_file_index, viewVars,
                              current_text, text_input, sizeVars, spinVars,
                              text_save_btn>>
          ELSE IF rects_deleted THEN Raise(NoFrame)
          ELSE LET rect == symbol_rects[index + 1]
                   x == int_div(scenePos(rect)[1], display_scale)
                   y == int_div(scenePos(rect)[2], display_scale)
                   w == int_div(rect.rect[3], display_scale)
                   h == int_div(rect.rect[4], display_scale)
               IN /\ selected_symbol_index' = index
                  /\ symbol_x_spin' = setValue(x, 0, 10000)
                  /\ symbol_y_spin' = setValue(y, 0, 10000)
                  /\ symbol_w_spin' = setValue(w, 1, 10000)
                  /\ symbol_h_spin' = setValue(h, 1, 10000)
                  /\ locals' = [handler |-> "on_symbol_selected", index |-> index,
                                rect |-> rect, x |-> x, y |-> y, w |-> w, h |-> h]
                  /\ UNCHANGED <<region_files, templates, app_running,
                                 current_region_files, current_file_index,
                                 viewVars, current_text, text_input, sizeVars,
                                 text_save_btn>>

\* rect.setPos(dx, dy) and rect.setRect(0, 0, dw, dh) on
\* symbol_rects[selected_symbol_index] (lines 827-830)
set_selected_rect(rects, index, x, y, w, h, scale) ==
    [rects EXCEPT ![index + 1].pos = <<x * scale, y * scale>>,
                  ![index + 1].rect = <<0, 0, w * scale, h * scale>>]

(* on_selected_symbol_changed, run by valueChanged of one of the four spin *)
(* boxes of the edit group (shown while a symbol is selected) when the     *)
(* user sets it to a new value.                                            *)
on_selected_symbol_changed ==
    /\ Handling
    /\ selected_symbol_index >= 0
    /\ \E spin \in {"x", "y", "w", "h"}, v \in SpinEdits :
          LET x == IF spin = "x" THEN v ELSE symbol_x_spin
              y == IF spin = "y" THEN v ELSE symbol_y_spin
              w == IF spin = "w" THEN v ELSE symbol_w_spin
              h == IF spin = "h" THEN v ELSE symbol_h_spin
          IN /\ <<x, y, w, h>> # <<symbol_x_spin, symbol_y_spin, symbol_w_spin,
                                  symbol_h_spin>>
             /\ symbol_x_spin' = x
             /\ symbol_y_spin' = y
             /\ symbol_w_spin' = w
             /\ symbol_h_spin' = h
             /\ locals' = NoFrame
             /\ UNCHANGED <<region_files, templates, current_region_files,
                            current_file_index, current_image, image_scene,
                            display_scale, current_text, selected_symbol_index,
                            text_input, sizeVars, text_save_btn>>
             /\ IF selected_symbol_index >= Len(symbol_rects)
                THEN UNCHANGED <<symbol_rects, app_running>>
                ELSE IF rects_deleted
                THEN app_running' = FALSE /\ UNCHANGED symbol_rects
                ELSE /\ symbol_rects' =
                           set_selected_rect(symbol_rects, selected_symbol_index,
                                             x, y, w, h, display_scale)
                     /\ UNCHANGED app_running

(* The user drags rectangle k (ItemIsMovable): its position changes, its   *)
(* rect() does not, and no handler of LabelingMode runs.                   *)
DragSymbolRect ==
    /\ Handling
    /\ ~rects_deleted
    /\ \E k \in 1..Len(symbol_rects), p \in DragPositions :
          symbol_rects' = [symbol_rects EXCEPT ![k].pos = p]
    /\ locals' = NoFrame
    /\ UNCHANGED <<region_files, templates, app_running, current_region_files,
                   current_file_index, current_image, image_scene, display_scale,
                   current_text, selected_symbol_index, text_input, sizeVars,
                   spinVars, text_save_btn>>

\* the user types into text_input
EditTextInput ==
    /\ Handling
    /\ \E text \in TextInputs : text_input' = text
    /\ locals' = NoFrame
    /\ UNCHANGED <<region_files, templates, app_running, current_region_files,
                   current_file_index, viewVars, current_text,
                   selected_symbol_index, sizeVars, spinVars, text_save_btn>>

\* the user sets the default symbol size
EditSymbolSize ==
    /\ Handling
    /\ \E size \in SymbolSizes :
          symbol_width_spin' = size[1] /\ symbol_height_spin' = size[2]
    /\ locals' = NoFrame
    /\ UNCHANGED <<region_files, templates, app_running, current_region_files,
                   current_file_index, viewVars, current_text,
                   selected_symbol_index, text_input, spinVars, text_save_btn>>

(* save_text_label *)

(* The checks with the two tests of symbol_rects left out.                 *)
save_precheck_TextOnly(text, rects) ==
    IF text = <<>> THEN "no_text_or_rects" ELSE "ok"

\* the checks made before anything is cropped (lines 1187-1194)
save_precheck(text, rects) ==
    IF text = <<>> \/ rects = <<>> THEN "no_text_or_rects"
    ELSE IF Len(text) # Len(rects) THEN "mismatch"
    ELSE "ok"

\* x, y, w, h of one rectangle in image pixels (lines 1202-1211): x and y
\* are last assigned from scenePos(), w and h come from rect()
symbol_box(rect, scale) ==
    <<int_div(scenePos(rect)[1], scale), int_div(scenePos(rect)[2], scale),
      int_div(rect.rect[3], scale), int_div(rect.rect[4], scale)>>

(* The bounds step with w and h cut to the image size, not to what is left *)
(* of the image right of x and below y.                                    *)
clamp_WholeImage(box, img) ==
    LET x == Max(0, Min(box[1], img.width - 1))
        y == Max(0, Min(box[2], img.height - 1))
        w == Max(1, Min(box[3], img.width))
        h == Max(1, Min(box[4], img.height))
    IN <<x, y, w, h>>

\* "Ensure bounds are within image" (lines 1214-1218)
clamp(box, img) ==
    LET x == Max(0, Min(box[1], img.width - 1))
        y == Max(0, Min(box[2], img.height - 1))
        w == Max(1, Min(box[3], img.width - x))
        h == Max(1, Min(box[4], img.height - y))
    IN <<x, y, w, h>>

\* current_image[y:y+h, x:x+w] for x, y >= 0: a slice stops at the edge
crop(img, x, y, w, h) ==
    [file |-> img.file, x |-> x, y |-> y,
     height |-> Max(0, Min(y + h, img.height) - Min(y, img.height)),
     width |-> Max(0, Min(x + w, img.width) - Min(x, img.width))]

\* the first loop (lines 1200-1222), zip stopping at the shorter list
symbol_images(text, rects, img, scale) ==
    [k \in 1..Min(Len(text), Len(rects)) |->
        LET box == symbol_box(rects[k], scale)
            bbox == clamp(box, img)
        IN [char |-> text[k], rect |-> rects[k], box |-> box,
            img_w |-> img.width, img_h |-> img.height, bbox |-> bbox,
            symbol_img |-> crop(img, bbox[1], bbox[2], bbox[3], bbox[4])]]

\* one turn of the second loop (lines 1254-1263)
save_symbol(char, written) ==
    IF isdigit(char) \/ char = "." THEN save_digit_template(char, written)
    ELSE IF isalpha(char)
         THEN save_symbol_template(char,
                                   IF is_ascii(char) THEN "letters_lat"
                                   ELSE "letters_cyr", written)
         ELSE save_symbol_template(char, "special", written)

(* The second loop leaving at the first symbol that was not saved.         *)
save_symbols_StopAtFailure(text, imgs, written) ==
    [k \in 1..Min(Len(text), Len(imgs)) |->
        IF \E j \in 1..(k - 1) : save_symbol(text[j], written[j]) = NoPath
        THEN NoPath
        ELSE save_symbol(text[k], written[k])]

(* The second loop passing over the last symbol.                           *)
save_symbols_SkipLast(text, imgs, written) ==
    [k \in 1..(Min(Len(text), Len(imgs)) - 1) |-> save_symbol(text[k], written[k])]

\* the second loop (lines 1250-1266): the result of each save call, in the
\* order of zip(text, symbol_images); written[k] tells whether the k-th
\* cv2.imwrite succeeds
save_symbols(text, imgs, written) ==
    [k \in 1..Min(Len(text), Len(imgs)) |-> save_symbol(text[k], written[k])]

\* saved_count: the results that are a path, not None
saved_count_of(results) == Cardinality({k \in 1..Len(results) : results[k] # NoPath})

SaveFrame(outcome, imgs, written, results) ==
    [handler |-> "save_text_label", outcome |-> outcome, symbol_images |-> imgs,
     written |-> written, results |-> results,
     saved_count |-> saved_count_of(results)]

save_text_label ==
    /\ Handling
    /\ text_save_btn
    /\ LET text == strip(current_text)
           check == save_precheck(text, symbol_rects)
           imgs == symbol_images(text, symbol_rects, current_image, display_scale)
       IN IF check # "ok"
          THEN /\ locals' = SaveFrame(check, <<>>, <<>>, <<>>)
               /\ UNCHANGED sessionVars
          ELSE IF Len(imgs) > 0 /\ (rects_deleted \/ current_image = None)
          THEN Raise(SaveFrame("raised", <<>>, <<>>, <<>>))
          ELSE \E reply \in {"Yes", "No"} :
                  IF reply # "Yes"
                  THEN /\ locals' = SaveFrame("declined", imgs, <<>>, <<>>)
                       /\ UNCHANGED sessionVars
                  ELSE /\ Len(templates) + Len(imgs) <= MaxTemplates
                       /\ \E written \in [1..Len(imgs) -> BOOLEAN],
                             loaded \in load_image(current_region_files,
                                                   current_file_index + 1) :
                             LET results == save_symbols(text, imgs, written)
                                 saved == SelectSeq(results, LAMBDA r : r # NoPath)
                                 scene == [image_scene EXCEPT !.rects = 0]
                             IN /\ templates' = templates \o saved
                                /\ locals' = SaveFrame("saved", imgs, written, results)
                                /\ text_input' = <<>>
                                /\ current_text' = <<>>
                                \* symbol_list.clear() reports row -1
                                /\ selected_symbol_index' = -1
                                /\ text_save_btn' = FALSE
                                \* next_file()
                                /\ IF current_file_index < Len(current_region_files) - 1
                                   THEN /\ current_file_index' = current_file_index + 1
                                        /\ SetView(load_current_file(
                                               current_region_files,
                                               current_file_index + 1, loaded,
                                               <<>>, scene))
                                   ELSE /\ symbol_rects' = <<>>
                                        /\ image_scene' = scene
                                        /\ UNCHANGED <<current_file_index,
                                                       current_image, display_scale>>
                                /\ UNCHANGED <<region_files, app_running,
                                               current_region_files, sizeVars,
                                               spinVars>>

InitLabeling ==
    /\ LabelingModeConstructed
    /\ ScreenshotModeConstructed
    /\ windows = {}
    /\ \E n \in 0..MaxFiles : region_files = [f \in 1..n |-> f]
    /\ pc = "ready"
    /\ self = DefaultSplitter
    /\ image = NoImage
    /\ min_gap = 1
    /\ bboxes = <<>>
    /\ max_gap = 1
    /\ use_projection = TRUE
    /\ locals = NoFrame
    /\ result = <<>>

NextLabeling ==
    \/ load_region_files
    \/ prev_file
    \/ next_file
    \/ delete_current_file
    \/ EditTextInput
    \/ EditSymbolSize
    \/ create_symbol_regions
    \/ apply_symbol_size_to_all
    \/ DragSymbolRect
    \/ on_symbol_selected
    \/ on_selected_symbol_changed
    \/ save_text_label

SpecLabeling == InitLabeling /\ [][NextLabeling]_vars

----------------------------------------------------------------------------
(* The template store (TemplateManager of src/core/template_manager.py):   *)
(* the save_*_template methods and template_exists.  A file on disk is     *)
(* [category |-> directory, name |-> file name]; templates lists the files *)
(* of the templates directory.                                             *)

CARD_RANKS == {"2", "3", "4", "5", "6", "7", "8", "9", "T", "J", "Q", "K", "A"}
CARD_SUITS == {"c", "d", "h", "s"}
COMBO_NAMES == {"high_card", "pair", "two_pair", "three_of_a_kind", "straight",
                "flush", "full_house", "four_of_a_kind", "straight_flush",
                "royal_flush"}
MARKER_NAMES == {"dealer_button", "timer", "seat_occupied"}

\* str.upper() and str.lower() on the one-character arguments of the model
upper(c) == CASE c = "k" -> "K" [] c = "a" -> "A" [] c = "h" -> "H" [] OTHER -> c
lower(c) == CASE c = "K" -> "k" [] c = "A" -> "a" [] c = "H" -> "h" [] OTHER -> c

\* the path of a file named f"{stem}.png", and of one named
\* f"{stem}_{timestamp}.png"
plain_file(path) ==
    IF path = NoPath THEN NoPath
    ELSE [category |-> path.category, name |-> path.stem \o ".png"]
stamped_file(path, timestamp) ==
    IF path = NoPath THEN NoPath
    ELSE [category |-> path.category,
          name |-> path.stem \o "_" \o timestamp \o ".png"]

\* the category directory and the file name up to ".png" or to the time
\* stamp; written tells whether cv2.imwrite succeeded
save_card_template(rank, suit, written) ==
    IF rank \notin CARD_RANKS \/ suit \notin CARD_SUITS THEN NoPath
    ELSE IF written THEN [category |-> "cards", stem |-> rank \o suit]
         ELSE NoPath

save_card_rank_template(rank, written) ==
    IF upper(rank) \notin CARD_RANKS THEN NoPath
    ELSE IF written THEN [category |-> "card_ranks", stem |-> upper(rank)]
         ELSE NoPath

save_card_suit_template(suit, written) ==
    IF lower(suit) \notin CARD_SUITS THEN NoPath
    ELSE IF written THEN [category |-> "card_suits", stem |-> lower(suit)]
         ELSE NoPath

save_combo_template(combo_name, written) ==
    IF combo_name \notin COMBO_NAMES THEN NoPath
    ELSE IF written THEN [category |-> "combos", stem |-> combo_name]
         ELSE NoPath

save_marker_template(marker_name, written) ==
    IF marker_name \notin MARKER_NAMES THEN NoPath
    ELSE IF written THEN [category |-> "markers", stem |-> marker_name]
         ELSE NoPath

\* template_exists(category, name) with the files of the templates
\* directory
template_exists(files, category, name) ==
    LET stem == IF category = "digits" /\ name = "." THEN "dot" ELSE name
    IN \E k \in 1..Len(files) :
          files[k] = [category |-> category, name |-> stem \o ".png"]

\* most save calls made on a template store, the values of
\* datetime.now().strftime(...) and the arguments of the save calls
MaxSaves == 2
Timestamps == {"20250117_123456_000001", "20250117_123457_000002"}
RankArgs == {"A", "k", "1"}
SuitArgs == {"h", "H", "x"}
ComboArgs == {"pair", "trips"}
MarkerArgs == {"timer", "chip"}
DigitArgs == {"7", ".", "a"}
SymbolArgs == {"a", "$"}
SymbolCategoryArgs == {"letters_lat", "special", "digits"}

InitTemplates ==
    /\ NoSession
    /\ pc = "ready"
    /\ self = DefaultSplitter
    /\ image = NoImage
    /\ min_gap = 1
    /\ bboxes = <<>>
    /\ max_gap = 1
    /\ use_projection = TRUE
    /\ locals = NoFrame
    /\ result = NoPath

\* cv2.imwrite: the file is on disk afterwards, once
imwrite(files, file) ==
    IF file = NoPath \/ \E k \in 1..Len(files) : files[k] = file THEN files
    ELSE Append(files, file)

\* a save call with its category and key returned file (NoPath for None)
SaveCall(handler, category, key, file) ==
    /\ handler_calls' = handler_calls + 1
    /\ locals' = [handler |-> handler, category |-> category, key |-> key]
    /\ result' = file
    /\ templates' = imwrite(templates, file)
    /\ UNCHANGED <<splitterArgs, region_files, app_running,
                   current_region_files, current_file_index, current_image,
                   current_text, symbol_rects, selected_symbol_index,
                   display_scale, image_scene, text_input, sizeVars, spinVars,
                   text_save_btn, screenshotVars>>

SaveCardTemplate ==
    /\ handler_calls < MaxSaves
    /\ \E rank \in RankArgs, suit \in SuitArgs, written \in BOOLEAN :
           SaveCall("save_card_template", "cards", rank \o suit,
                    plain_file(save_card_template(rank, suit, written)))

SaveCardRankTemplate ==
    /\ handler_calls < MaxSaves
    /\ \E rank \in RankArgs, written \in BOOLEAN, timestamp \in Timestamps :
           SaveCall("save_card_rank_template", "card_ranks", rank,
                    stamped_file(save_card_rank_template(rank, written), timestamp))

SaveCardSuitTemplate ==
    /\ handler_calls < MaxSaves
    /\ \E suit \in SuitArgs, written \in BOOLEAN, timestamp \in Timestamps :
           SaveCall("save_card_suit_template", "card_suits", suit,
                    stamped_file(save_card_suit_template(suit, written), timestamp))

SaveComboTemplate ==
    /\ handler_calls < MaxSaves
    /\ \E combo_name \in ComboArgs, written \in BOOLEAN :
           SaveCall("save_combo_template", "combos", combo_name,
                    plain_file(save_combo_template(combo_name, written)))

SaveMarkerTemplate ==
    /\ handler_calls < MaxSaves
    /\ \E marker_name \in MarkerArgs, written \in BOOLEAN :
           SaveCall("save_marker_template", "markers", marker_name,
                    plain_file(save_marker_template(marker_name, written)))

SaveDigitTemplate ==
    /\ handler_calls < MaxSaves
    /\ \E digit \in DigitArgs, written \in BOOLEAN, timestamp \in Timestamps :
           SaveCall("save_digit_template", "digits", digit,
                    stamped_file(save_digit_template(digit, written), timestamp))

SaveSymbolTemplate ==
    /\ handler_calls < MaxSaves
    /\ \E symbol \in SymbolArgs, category \in SymbolCategoryArgs,
          written \in BOOLEAN, timestamp \in Timestamps :
           SaveCall("save_symbol_template", category, symbol,
                    stamped_file(save_symbol_template(symbol, category, written),
                                 timestamp))

NextTemplates ==
    \/ SaveCardTemplate
    \/ SaveCardRankTemplate
    \/ SaveCardSuitTemplate
    \/ SaveComboTemplate
    \/ SaveMarkerTemplate
    \/ SaveDigitTemplate
    \/ SaveSymbolTemplate

SpecTemplates == InitTemplates /\ [][NextTemplates]_vars

----------------------------------------------------------------------------
(* The screenshot session: ScreenshotMode of src/ui/screenshot_mode.py and *)
(* the WindowManager of src/core/window_manager.py on win32 (elsewhere     *)
(* find_window finds nothing and hwnd stays None).                         *)

\* most screenshots counted in one capture, the window handles of the
\* desktop and the intervals set in the interval box
MaxScreenshots == 2
WindowHandles == {1, 2}
Intervals == {500, 2000}

\* WindowManager.is_window_valid: hwnd is set and win32gui.IsWindow(hwnd)
is_window_valid(h) == h # 0 /\ h \in windows

captureVars == <<is_capturing, screenshot_count, capture_timer, interval_spin>>

(* stop_capture that leaves the timer running. *)
StopCapture_TimerRunning ==
    /\ is_capturing' = FALSE
    /\ capture_timer' = capture_timer
    /\ interval_spin' = [interval_spin EXCEPT !.enabled = TRUE]
    /\ UNCHANGED screenshot_count

\* the body of stop_capture (lines 198-203)
StopCapture ==
    /\ is_capturing' = FALSE
    /\ capture_timer' = [capture_timer EXCEPT !.active = FALSE]
    /\ interval_spin' = [interval_spin EXCEPT !.enabled = TRUE]
    /\ UNCHANGED screenshot_count

\* the body of start_capture (lines 182-194)
StartCapture ==
    IF ~is_window_valid(hwnd) THEN UNCHANGED captureVars
    ELSE /\ is_capturing' = TRUE
         /\ screenshot_count' = 0
         /\ capture_timer' = [active |-> TRUE, interval |-> interval_spin.value]
         /\ interval_spin' = [interval_spin EXCEPT !.enabled = FALSE]

\* the body of update_window_status (lines 154-171) for the handle h of
\* the WindowManager; get_client_rect may fail on a valid window
UpdateWindowStatus(h) ==
    IF is_window_valid(h)
    THEN /\ \E rect \in BOOLEAN :
               start_stop_btn' = IF rect THEN TRUE ELSE start_stop_btn
         /\ UNCHANGED captureVars
    ELSE /\ start_stop_btn' = FALSE
         /\ IF is_capturing THEN StopCapture ELSE UNCHANGED captureVars

\* the status timer (every second) and on_mode_activated
update_window_status ==
    /\ UpdateWindowStatus(hwnd)
    /\ UNCHANGED <<hwnd, windows, splitterVars, labelingVars>>

\* the click of the start/stop button
toggle_capture ==
    /\ start_stop_btn
    /\ IF is_capturing THEN StopCapture ELSE StartCapture
    /\ UNCHANGED <<start_stop_btn, hwnd, windows, splitterVars, labelingVars>>

start_capture ==
    /\ StartCapture
    /\ UNCHANGED <<start_stop_btn, hwnd, windows, splitterVars, labelingVars>>

\* also called by MainWindow.closeEvent
stop_capture ==
    /\ StopCapture
    /\ UNCHANGED <<start_stop_btn, hwnd, windows, splitterVars, labelingVars>>

\* find_game_window: WindowManager.find_window takes the first window
\* EnumWindows reports; update_window_status follows when one was found
find_game_window ==
    /\ IF windows = {}
       THEN UNCHANGED <<hwnd, start_stop_btn, captureVars>>
       ELSE \E h \in windows : hwnd' = h /\ UpdateWindowStatus(h)
    /\ UNCHANGED <<windows, splitterVars, labelingVars>>

\* the timeout of capture_timer; capture_and_save returns no path when the
\* window cannot be captured or the file cannot be written
capture_screenshot ==
    /\ capture_timer.active
    /\ screenshot_count < MaxScreenshots
    /\ IF hwnd = 0 THEN UNCHANGED screenshot_count
       ELSE \E saved \in {s \in BOOLEAN : s => hwnd \in windows} :
               screenshot_count' = IF saved THEN screenshot_count + 1
                                   ELSE screenshot_count
    /\ UNCHANGED <<is_capturing, capture_timer, start_stop_btn, interval_spin,
                   hwnd, windows, splitterVars, labelingVars>>

\* the user sets the interval box, and on_config_changed sets it
EditInterval ==
    /\ interval_spin.enabled
    /\ \E v \in Intervals : interval_spin' = [interval_spin EXCEPT !.value = v]
    /\ UNCHANGED <<is_capturing, screenshot_count, capture_timer,
                   start_stop_btn, hwnd, windows, splitterVars, labelingVars>>

on_config_changed ==
    /\ \E v \in Intervals : interval_spin' = [interval_spin EXCEPT !.value = v]
    /\ UNCHANGED <<is_capturing, screenshot_count, capture_timer,
                   start_stop_btn, hwnd, windows, splitterVars, labelingVars>>

\* a window of the desktop is opened or closed
WindowOpens ==
    /\ \E h \in WindowHandles \ windows : windows' = windows \cup {h}
    /\ UNCHANGED <<captureVars, start_stop_btn, hwnd, splitterVars, labelingVars>>

WindowCloses ==
    /\ \E h \in windows : windows' = windows \ {h}
    /\ UNCHANGED <<captureVars, start_stop_btn, hwnd, splitterVars, labelingVars>>

InitScreenshot ==
    /\ LabelingModeConstructed
    /\ region_files = <<>>
    /\ ScreenshotModeConstructed
    /\ windows \in SUBSET WindowHandles
    /\ pc = "ready"
    /\ self = DefaultSplitter
    /\ image = NoImage
    /\ min_gap = 1
    /\ bboxes = <<>>
    /\ max_gap = 1
    /\ use_projection = TRUE
    /\ locals = NoFrame
    /\ result = <<>>

NextScreenshot ==
    \/ update_window_status
    \/ toggle_capture
    \/ start_capture
    \/ stop_capture
    \/ find_game_window
    \/ capture_screenshot
    \/ EditInterval
    \/ on_config_changed
    \/ WindowOpens
    \/ WindowCloses

SpecScreenshot == InitScreenshot /\ [][NextScreenshot]_vars

----------------------------------------------------------------------------
(* Properties of split_by_projection, checked under SpecProjection.        *)

(* The spec's terms, stated on the mask itself. *)
InkCount(img, x) == Cardinality({y \in 0..(img.height - 1) : img.pix[x][y] # 0})
\* a gap column: projection at or below 5% of the mask height
GapColumn(img, x) == InkCount(img, x) * 20 <= img.height
\* columns a..b are a run of ink (non-gap) columns
InkRun(img, a, b) == a <= b /\ \A x \in a..b : ~GapColumn(img, x)
\* columns a..b exist and are all gap columns
GapRun(img, a, b) ==
    a >= 0 /\ b <= img.width - 1 /\ \A x \in a..b : GapColumn(img, x)
\* the rows with ink in columns a..b
InkRows(img, a, b) ==
    {y \in 0..(img.height - 1) : \E x \in a..b : img.pix[x][y] # 0}
InkExtent(img, a, b) ==
    IF InkRows(img, a, b) = {} THEN 0
    ELSE MaxOf(InkRows(img, a, b)) - MinOf(InkRows(img, a, b)) + 1
HasSpan(boxes, a, b) ==
    \E i \in 1..Len(boxes) : boxes[i][1] = a /\ boxes[i][1] + boxes[i][3] = b + 1

(* C1 as stated: every run of ink columns with at least one gap column     *)
(* immediately on each side comes back as a box with exactly that x-span.  *)
C1_AsStated ==
    pc = "done" =>
        \A a \in Cols(image) : \A b \in Cols(image) :
            (InkRun(image, a, b) /\ GapRun(image, a - 1, a - 1)
                                 /\ GapRun(image, b + 1, b + 1))
                => HasSpan(result, a, b)

\* a run that split_by_projection must report: min_gap gap columns
\* immediately on each side, min_width wide, ink spanning min_height rows
ReportedRun(a, b) ==
    /\ InkRun(image, a, b)
    /\ GapRun(image, a - min_gap, a - 1)
    /\ GapRun(image, b + 1, b + min_gap)
    /\ b - a + 1 >= self.min_width
    /\ InkExtent(image, a, b) >= self.min_height

(* C1, amended: every run of ink columns that has at least min_gap gap     *)
(* columns immediately on each side, is at least min_width wide and whose  *)
(* ink spans at least min_height rows comes back as a box with exactly     *)
(* that x-span (x = first column, x + w = last column + 1).                *)
C1_FlankedRunIsBoxed ==
    pc = "done" =>
        \A a \in Cols(image) : \A b \in Cols(image) :
            ReportedRun(a, b) => HasSpan(result, a, b)

(* C1 witness: a call returned two or more boxes, one of them for a run    *)
(* two or more columns wide that the amended claim covers.                 *)
C1_Witness ==
    /\ pc = "done"
    /\ Len(result) >= 2
    /\ \E a \in Cols(image) : \E b \in Cols(image) : a < b /\ ReportedRun(a, b)

\* the mask is made of rectangular ink blocks separated by empty columns:
\* neighbouring columns with ink hold the same rows, and those rows are
\* contiguous
ColumnInk(img, x) == {y \in 0..(img.height - 1) : img.pix[x][y] # 0}
BlockMask(img) ==
    /\ \A x \in Cols(img) :
          LET ink == ColumnInk(img, x)
          IN ink # {} => ink = MinOf(ink)..MaxOf(ink)
    /\ \A x \in Cols(img) :
          (x + 1 \in Cols(img) /\ ColumnInk(img, x) # {} /\ ColumnInk(img, x + 1) # {})
              => ColumnInk(img, x) = ColumnInk(img, x + 1)
\* the first columns of the blocks, and the last column of the block
\* starting at a
BlockStarts(img) ==
    {x \in Cols(img) : ColumnInk(img, x) # {}
                       /\ (x = 0 \/ ColumnInk(img, x - 1) = {})}
BlockEnd(img, a) ==
    MinOf({x \in a..(img.width - 1) :
              x = img.width - 1 \/ ColumnInk(img, x + 1) = {}})
BlockWidth(img, a) == BlockEnd(img, a) - a + 1
BlockHeight(img, a) == Cardinality(ColumnInk(img, a))
\* the number of blocks that start left of column a
BlocksBefore(img, a) == Cardinality({s \in BlockStarts(img) : s < a})
BlocksFit(slf, img) ==
    \A a \in BlockStarts(img) :
        BlockWidth(img, a) >= slf.min_width /\ BlockHeight(img, a) >= slf.min_height
\* k boxes in ascending x order, the i-th within tol pixels of the i-th block
MatchesBlocks(boxes, img, tol) ==
    /\ Len(boxes) = Cardinality(BlockStarts(img))
    /\ \A i \in 1..(Len(boxes) - 1) : boxes[i][1] < boxes[i + 1][1]
    /\ \A a \in BlockStarts(img) :
          LET box == boxes[BlocksBefore(img, a) + 1]
          IN /\ Abs(box[1] - a) <= tol
             /\ Abs(box[3] - BlockWidth(img, a)) <= tol

(* C10 as stated, read with the default min_gap = 1: a mask of k           *)
(* rectangular blocks, each at least min_width wide and min_height tall    *)
(* and one empty column apart, gives exactly k boxes in ascending x order  *)
(* matching the blocks within 1 pixel.                                     *)
C10_AsStated ==
    (pc = "done" /\ min_gap = 1 /\ BlockMask(image) /\ BlocksFit(self, image))
        => MatchesBlocks(result, image, 1)

(* C10, amended: when split_by_projection is called with min_gap = 1 and   *)
(* every block is also taller than 5% of the mask height, it returns       *)
(* exactly k boxes in ascending x order, the i-th box having exactly the   *)
(* x offset and width of the i-th block.                                   *)
C10_BlocksAreBoxed ==
    (/\ pc = "done"
     /\ min_gap = 1
     /\ BlockMask(image)
     /\ BlocksFit(self, image)
     /\ \A a \in BlockStarts(image) : BlockHeight(image, a) * 20 > image.height)
        => MatchesBlocks(result, image, 0)

(* C10 witness: a 40-row mask of at least two blocks, one of them two or   *)
(* more columns wide, was split with min_gap = 1 into as many boxes.       *)
C10_Witness ==
    /\ pc = "done"
    /\ min_gap = 1
    /\ image.height = 40
    /\ BlockMask(image)
    /\ BlocksFit(self, image)
    /\ Cardinality(BlockStarts(image)) >= 2
    /\ \A a \in BlockStarts(image) : BlockHeight(image, a) * 20 > image.height
    /\ \E a \in BlockStarts(image) : BlockWidth(image, a) >= 2
    /\ Len(result) = Cardinality(BlockStarts(image))

\* the loop of split_by_projection before and after column x
ScanBefore(x) == ScanTo(self, image, min_gap, x)
ScanAfter(x) == ScanTo(self, image, min_gap, x + 1)
\* columns x - m + 1 .. x are m gap columns that follow an ink column
ClosingRun(x, m) ==
    /\ x - m >= 0
    /\ GapRun(image, x - m + 1, x)
    /\ ~GapColumn(image, x - m)

(* C19: in split_by_projection with minimum gap run m = min_gap, an open   *)
(* symbol is closed at a column only when that column is the m-th of m     *)
(* consecutive gap columns; an ink column that follows fewer than m gap    *)
(* columns resets the gap counter and leaves the symbol open, with its     *)
(* start and the boxes found so far unchanged; and a box closed by a gap   *)
(* run ends at the first column of that run (x + w = that column).         *)
C19_ClosedAfterGapRun ==
    pc = "done" =>
        \A x \in Cols(image) :
            /\ (ScanBefore(x).in_symbol /\ ~ScanAfter(x).in_symbol)
                   => ClosingRun(x, min_gap)
            /\ (ScanBefore(x).in_symbol /\ ~GapColumn(image, x))
                   => /\ ScanAfter(x).in_symbol
                      /\ ScanAfter(x).gap_count = 0
                      /\ ScanAfter(x).start_x = ScanBefore(x).start_x
                      /\ ScanAfter(x).bboxes = ScanBefore(x).bboxes
            /\ ScanAfter(x).bboxes # ScanBefore(x).bboxes
                   => /\ Front(ScanAfter(x).bboxes) = ScanBefore(x).bboxes
                      /\ Last(ScanAfter(x).bboxes)[1] = ScanBefore(x).start_x
                      /\ Last(ScanAfter(x).bboxes)[1] + Last(ScanAfter(x).bboxes)[3]
                             = x - min_gap + 1

(* C19 witness: with min_gap = 2 a symbol went on over a single gap column *)
(* and was closed by the two gap columns that end the mask, so the box     *)
(* returned holds a gap column and stops at the first of the two.          *)
C19_Witness ==
    /\ pc = "done"
    /\ min_gap = 2
    /\ image.width = 5
    /\ ~GapColumn(image, 0) /\ GapColumn(image, 1) /\ ~GapColumn(image, 2)
    /\ GapRun(image, 3, 4)
    /\ Len(result) = 1
    /\ result[1][1] = 0
    /\ result[1][3] = 3

\* the scan state when the loop over the columns has ended
ScanEnd == ScanTo(self, image, min_gap, image.width)
\* the span from column a to the right edge passes the size filter
OpenSpanFits(a) ==
    /\ image.width - a >= self.min_width
    /\ InkExtent(image, a, image.width - 1) >= self.min_height

(* C22: when the scan of split_by_projection ends with a symbol still open *)
(* the symbol is closed at the image width: the boxes found so far are     *)
(* followed by one last box that starts where the symbol started and has   *)
(* x + w = image width (or, when that span fails the size filter, by no    *)
(* box).                                                                   *)
C22_OpenSymbolClosedAtWidth ==
    (pc = "done" /\ ScanEnd.in_symbol) =>
        IF OpenSpanFits(ScanEnd.start_x)
        THEN /\ result # <<>>
             /\ Front(result) = ScanEnd.bboxes
             /\ Last(result)[1] = ScanEnd.start_x
             /\ Last(result)[1] + Last(result)[3] = image.width
        ELSE result = ScanEnd.bboxes

(* C22 witness: with min_gap = 2 the mask ended on a single gap column     *)
(* after an ink column; the symbol was still open, and its box, the second *)
(* one returned, runs to the image width.                                  *)
C22_Witness ==
    /\ pc = "done"
    /\ min_gap = 2
    /\ ScanEnd.in_symbol
    /\ GapColumn(image, image.width - 1)
    /\ Len(result) = 2
    /\ result[2][1] + result[2][3] = image.width

\* row y holds ink within the columns of the box
InkInRow(img, box, y) ==
    \E x \in box[1]..(box[1] + box[3] - 1) : img.pix[x][y] # 0

(* C23: for every box (x, y, w, h) returned by split_by_projection, rows y *)
(* and y + h - 1 each hold ink within columns [x, x + w), and no row       *)
(* outside [y, y + h) holds ink within those columns.                      *)
C23_TightVerticalExtent ==
    pc = "done" =>
        \A i \in 1..Len(result) :
            LET box == result[i]
            IN /\ box[2] \in Rows(image) /\ box[2] + box[4] - 1 \in Rows(image)
               /\ InkInRow(image, box, box[2])
               /\ InkInRow(image, box, box[2] + box[4] - 1)
               /\ \A y \in Rows(image) :
                      InkInRow(image, box, y) => y \in box[2]..(box[2] + box[4] - 1)

(* C23 witness: a box two or more columns wide was returned that starts    *)
(* below the top row and ends above the bottom row of the mask, and has a  *)
(* row without ink inside its extent.                                      *)
C23_Witness ==
    /\ pc = "done"
    /\ \E i \in 1..Len(result) :
          /\ result[i][3] >= 2
          /\ result[i][2] > 0
          /\ result[i][2] + result[i][4] < image.height
    /\ \E i \in 1..Len(result) :
          \E y \in result[i][2]..(result[i][2] + result[i][4] - 1) :
              ~InkInRow(image, result[i], y)

(* C28: the boxes returned by split_by_projection are in strictly          *)
(* ascending x order, their column ranges are pairwise disjoint            *)
(* (x_i + w_i <= x_{i+1}), and each lies inside the mask.                  *)
C28_AscendingDisjointInside ==
    pc = "done" =>
        /\ \A i \in 1..(Len(result) - 1) :
              /\ result[i][1] < result[i + 1][1]
              /\ result[i][1] + result[i][3] <= result[i + 1][1]
        /\ \A i \in 1..Len(result) :
              /\ result[i][1] >= 0 /\ result[i][2] >= 0
              /\ result[i][1] + result[i][3] <= image.width
              /\ result[i][2] + result[i][4] <= image.height

(* C28 witness: three boxes were returned, the last one touching the right *)
(* edge of the mask and one of them spanning every row of the mask.        *)
C28_Witness ==
    /\ pc = "done"
    /\ Len(result) = 3
    /\ result[3][1] + result[3][3] = image.width
    /\ \E i \in 1..3 : result[i][2] = 0 /\ result[i][4] = image.height

----------------------------------------------------------------------------
(* Properties of merge_close_boxes, checked under SpecMerge.               *)

BoxSet(boxes) == {boxes[i] : i \in 1..Len(boxes)}

(* C2 as stated: running merge_close_boxes with the same max_gap on its    *)
(* own output returns the same set of boxes.                               *)
C2_AsStated ==
    pc = "done" => BoxSet(merge_close_boxes(result, max_gap)) = BoxSet(result)

\* box b passes merge_close_boxes' test against box a: the smaller of
\* |b.x - (a.x + a.w)| and |a.x - (b.x + b.w)| is at most g, and the row
\* ranges overlap or touch
Mergeable(a, b, g) ==
    /\ (Abs(b[1] - (a[1] + a[3])) <= g \/ Abs(a[1] - (b[1] + b[3])) <= g)
    /\ b[2] + b[4] >= a[2]
    /\ a[2] + a[4] >= b[2]
Settled(boxes, g) ==
    \A i \in 1..(Len(boxes) - 1) : ~Mergeable(boxes[i], boxes[i + 1], g)

(* C2, amended: running merge_close_boxes with the same max_gap on its own *)
(* output returns the same list exactly when no output box passes the      *)
(* merge test against the output box that follows it; otherwise the second *)
(* run returns fewer boxes (a box is tested against the members of the     *)
(* open group, not against the group's merged extent, so the output can    *)
(* still hold boxes that merge).                                           *)
C2_RerunSameIffSettled ==
    pc = "done" =>
        LET again == merge_close_boxes(result, max_gap)
        IN IF Settled(result, max_gap)
           THEN again = result
           ELSE Len(again) < Len(result)

(* C2 witness: a call that merged two of three boxes returned two boxes    *)
(* that a second run leaves alone.                                         *)
C2_Witness ==
    /\ pc = "done"
    /\ Len(bboxes) = 3
    /\ Len(result) = 2
    /\ Settled(result, max_gap)

\* boxes l and r share at least one row
RowsShared(l, r) == l[2] < r[2] + r[4] /\ r[2] < l[2] + l[4]
BoundingUnion(l, r) ==
    LET x0 == Min(l[1], r[1])
        y0 == Min(l[2], r[2])
        x1 == Max(l[1] + l[3], r[1] + r[3])
        y1 == Max(l[2] + l[4], r[2] + r[4])
    IN <<x0, y0, x1 - x0, y1 - y0>>

(* C9: for two boxes whose row ranges overlap, the left one ending g >= 0  *)
(* pixels before the right one starts, merge_close_boxes returns their     *)
(* bounding union alone when g <= max_gap and both boxes unchanged, left   *)
(* first, when g > max_gap; x=10,w=3 and x=14,w=3 give the box x=10,w=7    *)
(* for max_gap = 1 and two boxes for max_gap = 0.                          *)
C9_TwoBoxes ==
    /\ (pc = "done" /\ Len(bboxes) = 2) =>
          \A i \in 1..2 :
              LET l == bboxes[i]
                  r == bboxes[3 - i]
                  g == r[1] - (l[1] + l[3])
              IN (g >= 0 /\ RowsShared(l, r)) =>
                    result = IF g <= max_gap THEN <<BoundingUnion(l, r)>>
                             ELSE <<l, r>>
    /\ merge_close_boxes(<<<<10, 0, 3, 5>>, <<14, 1, 3, 5>>>>, 1) = <<<<10, 0, 7, 6>>>>
    /\ merge_close_boxes(<<<<10, 0, 3, 5>>, <<14, 1, 3, 5>>>>, 0)
           = <<<<10, 0, 3, 5>>, <<14, 1, 3, 5>>>>

(* C9 witness: two row-sharing boxes exactly max_gap = 1 apart, the right  *)
(* one given first, came back as one box.                                  *)
C9_Witness ==
    /\ pc = "done"
    /\ Len(bboxes) = 2
    /\ max_gap = 1
    /\ bboxes[1][1] - (bboxes[2][1] + bboxes[2][3]) = 1
    /\ RowsShared(bboxes[1], bboxes[2])
    /\ Len(result) = 1

\* boxes l and r share at least one column
ColumnsShared(l, r) == l[1] < r[1] + r[3] /\ r[1] < l[1] + l[3]
\* the horizontal distance of two boxes: 0 when their column extents
\* overlap or touch, else the number of columns between them
Distance(l, r) ==
    Max(0, Max(l[1], r[1]) - Min(l[1] + l[3], r[1] + r[3]))
\* box b lies within box out
Within(b, out) ==
    /\ out[1] <= b[1] /\ b[1] + b[3] <= out[1] + out[3]
    /\ out[2] <= b[2] /\ b[2] + b[4] <= out[2] + out[4]

(* C20 as stated: a box whose horizontal distance to a member of the       *)
(* current group is at most max_gap (0 when the column extents overlap or  *)
(* one holds the other) and whose row range overlaps that member's joins   *)
(* the group, so that two input boxes merge into one; and two input boxes  *)
(* that share a column and a row never end up in different output boxes.   *)
C20_AsStated ==
    pc = "done" =>
        /\ (/\ Len(bboxes) = 2
            /\ Distance(bboxes[1], bboxes[2]) <= max_gap
            /\ RowsShared(bboxes[1], bboxes[2])) => Len(result) = 1
        /\ \A i \in 1..Len(bboxes) : \A j \in 1..Len(bboxes) :
              (ColumnsShared(bboxes[i], bboxes[j]) /\ RowsShared(bboxes[i], bboxes[j]))
                  => \E k \in 1..Len(result) :
                        Within(bboxes[i], result[k]) /\ Within(bboxes[j], result[k])

\* the orders of the boxes bs in which x never decreases
XSorted(bs) ==
    LET n == Len(bs)
        perms == {f \in [1..n -> 1..n] : \A i, j \in 1..n : f[i] = f[j] => i = j}
    IN {[i \in 1..n |-> bs[f[i]]] : f \in
           {f \in perms : \A i \in 1..(n - 1) : bs[f[i]][1] <= bs[f[i + 1]][1]}}
\* the bounding union of the boxes s[a..b]
UnionOf(s, a, b) ==
    LET x0 == MinOf({s[i][1] : i \in a..b})
        y0 == MinOf({s[i][2] : i \in a..b})
        x1 == MaxOf({s[i][1] + s[i][3] : i \in a..b})
        y1 == MaxOf({s[i][2] + s[i][4] : i \in a..b})
    IN <<x0, y0, x1 - x0, y1 - y0>>
\* out holds, in order, the bounding unions of the consecutive groups into
\* which the indices in starts (the first member of each group) cut s
UnionsOfGroups(out, s, starts) ==
    /\ Len(out) = Cardinality(starts)
    /\ \A a \in starts :
          LET later == {b \in starts : b > a}
              last == IF later = {} THEN Len(s) ELSE MinOf(later) - 1
              k == Cardinality({b \in starts : b <= a})
          IN out[k] = UnionOf(s, a, last)

(* C21: merge_close_boxes cuts the x-sorted input boxes into consecutive   *)
(* groups and returns, in the order of the groups, the bounding union of   *)
(* each; so every input box lies within an output box, there are no more   *)
(* output boxes than input boxes, the x of the output boxes never          *)
(* decreases, and no input box gives no output box.                        *)
C21_UnionsOfConsecutiveGroups ==
    pc = "done" =>
        /\ bboxes = <<>> => result = <<>>
        /\ bboxes # <<>> =>
              \E s \in XSorted(bboxes) :
                  \E rest \in SUBSET (2..Len(s)) :
                      UnionsOfGroups(result, s, {1} \cup rest)
        /\ \A i \in 1..Len(bboxes) :
              \E k \in 1..Len(result) : Within(bboxes[i], result[k])
        /\ Len(result) <= Len(bboxes)
        /\ \A k \in 1..(Len(result) - 1) : result[k][1] <= result[k + 1][1]

(* C21 witness: three boxes given out of x order came back as two boxes,   *)
(* the second the union of two boxes that differ from it.                  *)
C21_Witness ==
    /\ pc = "done"
    /\ Len(bboxes) = 3
    /\ bboxes[1][1] > bboxes[3][1]
    /\ Len(result) = 2
    /\ result[1] \in BoxSet(bboxes)
    /\ result[2] \notin BoxSet(bboxes)

----------------------------------------------------------------------------
(* Properties of split_to_symbols, checked under SpecSplit.                *)

\* the boxes of the (sub-image, box) pairs returned
ResultBoxes == [i \in 1..Len(result) |-> result[i][2]]

(* C4: every box split_to_symbols returns lies inside the input image:     *)
(* x >= 0, y >= 0, w > 0, h > 0, x + w <= width and y + h <= height.       *)
C4_BoxesInsideImage ==
    pc = "done" =>
        \A i \in 1..Len(result) :
            LET b == result[i][2]
            IN /\ b[1] >= 0 /\ b[2] >= 0 /\ b[3] > 0 /\ b[4] > 0
               /\ b[1] + b[3] <= image.width
               /\ b[2] + b[4] <= image.height

(* C4 witness: two or more boxes came back, one merged from several        *)
(* components and reaching the right and bottom edges of the image.        *)
C4_Witness ==
    /\ pc = "done"
    /\ Len(result) >= 2
    /\ ResultBoxes = locals.bboxes_contours
    /\ \E i \in 1..Len(result) :
          /\ result[i][2][1] > 0
          /\ result[i][2][1] + result[i][2][3] = image.width
          /\ result[i][2][2] + result[i][2][4] = image.height

(* C5: split_to_symbols returns the contour result exactly when the        *)
(* contour segmenter found strictly more boxes than the projection         *)
(* segmenter; otherwise the projection result when that is not empty; and  *)
(* the empty list when both are empty.                                     *)
C5_MoreBoxesWins ==
    pc = "done" =>
        IF Len(locals.bboxes_contours) > Len(locals.bboxes_projection)
        THEN ResultBoxes = locals.bboxes_contours
        ELSE IF Len(locals.bboxes_projection) > 0
        THEN ResultBoxes = locals.bboxes_projection
        ELSE result = <<>>

(* C5 witness: the contour segmenter found more boxes than the projection  *)
(* segmenter, which found some, and the contour boxes came back.           *)
C5_Witness ==
    /\ pc = "done"
    /\ Len(locals.bboxes_projection) >= 1
    /\ Len(locals.bboxes_contours) > Len(locals.bboxes_projection)
    /\ ResultBoxes = locals.bboxes_contours

(* C6 as stated: when both segmenters return the same number of boxes,     *)
(* split_to_symbols returns the contour result.                            *)
C6_AsStated ==
    (pc = "done" /\ Len(locals.bboxes_contours) = Len(locals.bboxes_projection))
        => ResultBoxes = locals.bboxes_contours

(* C6, amended: when both segmenters return the same number of boxes,      *)
(* split_to_symbols returns the projection result; only when both are      *)
(* empty is that the (empty) contour result.                               *)
C6_TieGoesToProjection ==
    (pc = "done" /\ Len(locals.bboxes_contours) = Len(locals.bboxes_projection))
        => ResultBoxes = locals.bboxes_projection

(* C6 witness: a tie between two different non-empty results.              *)
C6_Witness ==
    /\ pc = "done"
    /\ Len(locals.bboxes_projection) >= 1
    /\ Len(locals.bboxes_contours) = Len(locals.bboxes_projection)
    /\ locals.bboxes_contours # locals.bboxes_projection
    /\ ResultBoxes = locals.bboxes_projection

\* the result of the segmenter that split_to_symbols chose
ChosenBoxes ==
    IF Len(locals.bboxes_contours) > Len(locals.bboxes_projection)
    THEN locals.bboxes_contours
    ELSE locals.bboxes_projection
\* the lists a and b hold the same boxes, each as often
SameBoxes(a, b) ==
    /\ Len(a) = Len(b)
    /\ \A box \in BoxSet(a) \cup BoxSet(b) :
          Cardinality({i \in 1..Len(a) : a[i] = box})
              = Cardinality({i \in 1..Len(b) : b[i] = box})
\* sub is the w x h block of img whose top left pixel is (x, y)
IsCropAt(sub, img, box) ==
    /\ sub.width = box[3]
    /\ sub.height = box[4]
    /\ \A x \in 0..(box[3] - 1) : \A y \in 0..(box[4] - 1) :
          sub.pix[x][y] = img.pix[box[1] + x][box[2] + y]

(* C11: split_to_symbols returns its (sub-image, box) pairs in             *)
(* non-decreasing order of box x, one pair per box of the chosen           *)
(* segmenter's result, and each sub-image is the block of the input image  *)
(* (not of the binary mask) at exactly the pair's box.                     *)
C11_SortedCropsOfOriginal ==
    pc = "done" =>
        /\ \A i \in 1..(Len(result) - 1) : result[i][2][1] <= result[i + 1][2][1]
        /\ SameBoxes(ResultBoxes, ChosenBoxes)
        /\ \A i \in 1..Len(result) : IsCropAt(result[i][1], image, result[i][2])

(* C11 witness: two or more pairs came back, with boxes at different x,    *)
(* and one sub-image differs from the same block of the binary mask.       *)
C11_Witness ==
    /\ pc = "done"
    /\ Len(result) >= 2
    /\ result[1][2][1] < result[2][2][1]
    /\ \E i \in 1..Len(result) : ~IsCropAt(result[i][1], locals.binary, result[i][2])

\* a SymbolSplitter that filters nothing, and the spans and components
\* found before the size filter
AnySize == [min_width |-> 0, min_height |-> 0]
SpansFound == split_by_projection(AnySize, locals.binary, 1)
ComponentsFound ==
    [i \in 1..Len(locals.contours) |-> boundingRect(locals.contours[i])]

(* C24: every box returned by split_by_projection and by find_contours has *)
(* w >= min_width and h >= min_height, and the boxes returned are exactly  *)
(* the spans, or the bounding boxes of the components, that meet the       *)
(* minimums, in the order found: one below the minimums is left out and    *)
(* the others are returned as they are.                                    *)
C24_UndersizedDropped ==
    pc = "done" =>
        LET Fits(b) == b[3] >= self.min_width /\ b[4] >= self.min_height
        IN /\ \A i \in 1..Len(locals.bboxes_found) : Fits(locals.bboxes_found[i])
           /\ \A i \in 1..Len(locals.bboxes_projection) :
                  Fits(locals.bboxes_projection[i])
           /\ locals.bboxes_found = SelectSeq(ComponentsFound, Fits)
           /\ use_projection
                  => locals.bboxes_projection = SelectSeq(SpansFound, Fits)

(* C24 witness: both segmenters found a span or component below the        *)
(* minimums, left it out and returned another one.                         *)
C24_Witness ==
    /\ pc = "done"
    /\ use_projection
    /\ Len(locals.bboxes_found) >= 1
    /\ Len(locals.bboxes_found) < Len(locals.contours)
    /\ Len(locals.bboxes_projection) >= 1
    /\ Len(locals.bboxes_projection) < Len(SpansFound)

----------------------------------------------------------------------------
(* Properties of the binarizers, checked under SpecBinarize.               *)

\* the mask has the size of the image and holds 0 and 255 only
TwoValuedMaskOf(mask, img) ==
    /\ mask.height = img.height /\ mask.width = img.width
    /\ \A p \in Pixels(img) : mask.pix[p[1]][p[2]] \in {0, INK}

(* C25 as stated, with "darker than its threshold" read as "not brighter   *)
(* than its threshold", the comparison cv2.threshold makes: the Otsu       *)
(* policy (preprocess_image) and the local adaptive policy (binarize_image *)
(* with its default method) return a two-valued mask of the size of the    *)
(* input where a pixel not brighter than its threshold is ink (255) and    *)
(* every other pixel is background (0).  For the adaptive policy the       *)
(* threshold of a pixel is its local mean minus 2, and the statement is    *)
(* made only of the pixels that lie on the same side of it whatever the    *)
(* local mean is.                                                          *)
C25_AsStated ==
    pc = "done" =>
        /\ locals.policy = "preprocess_image" =>
              /\ TwoValuedMaskOf(result, image)
              /\ \A p \in Pixels(image) :
                    result.pix[p[1]][p[2]] = INK
                        <=> image.pix[p[1]][p[2]] <= OtsuThreshold(image)
        /\ (locals.policy = "binarize_image" /\ locals.method = "adaptive") =>
              /\ TwoValuedMaskOf(result, image)
              /\ \A p \in Pixels(image) :
                    LET level == image.pix[p[1]][p[2]]
                        means == LocalMeans(image, p, 11)
                    IN /\ (\A mean \in means : level <= mean - 2)
                              => result.pix[p[1]][p[2]] = INK
                       /\ (\A mean \in means : level > mean - 2)
                              => result.pix[p[1]][p[2]] = 0

----------------------------------------------------------------------------
(* Properties of the labeling session, checked under SpecLabeling.         *)

\* save_text_label returned after cropping every symbol
Cropped ==
    /\ locals.handler = "save_text_label"
    /\ locals.outcome \in {"saved", "declined"}

(* C3: when the number of characters of the label text differs from the    *)
(* number of symbol rectangles, save_text_label crops nothing, writes no   *)
(* template and leaves the session as it was.                              *)
C3_MismatchSavesNothing ==
    [][(save_text_label /\ Len(strip(current_text)) # Len(symbol_rects))
          => /\ locals'.symbol_images = <<>>
             /\ locals'.saved_count = 0
             /\ UNCHANGED sessionVars]_vars

(* C3 witness: save_text_label has returned at its checks in a session     *)
(* that holds a two-character text and, after a change of file, no         *)
(* rectangle.                                                              *)
C3_Witness ==
    /\ locals.handler = "save_text_label"
    /\ locals.outcome = "no_text_or_rects"
    /\ Len(current_text) = 2
    /\ symbol_rects = <<>>
    /\ current_image # None

\* where a rectangle is displayed, in image pixels: its position plus the
\* origin of its rect(), and the size of its rect(), over the scale
DisplayedBox(rect, scale) ==
    <<int_div(rect.pos[1] + rect.rect[1], scale),
      int_div(rect.pos[2] + rect.rect[2], scale),
      int_div(rect.rect[3], scale), int_div(rect.rect[4], scale)>>

(* C7 as stated: the rectangle save_text_label crops for a symbol, before  *)
(* the bounds step, and the coordinates on_symbol_selected loads into the  *)
(* editor are the displayed rectangle in image pixels; a box never moved   *)
(* since create_symbol_regions made it is cropped at x = 10 + i * (w + 5), *)
(* y = 10.                                                                 *)
C7_AsStated ==
    /\ Cropped =>
          \A k \in 1..Len(locals.symbol_images) :
              LET s == locals.symbol_images[k]
              IN /\ s.box = DisplayedBox(s.rect, display_scale)
                 /\ (s.rect.pos = <<0, 0>> /\ s.rect.rect[2] = 10 * display_scale)
                       => /\ s.box[1] = 10 + (k - 1) * (s.box[3] + 5)
                          /\ s.box[2] = 10
    /\ locals.handler = "on_symbol_selected" =>
          <<locals.x, locals.y, locals.w, locals.h>>
              = DisplayedBox(locals.rect, display_scale)

(* C8: every rectangle save_text_label crops, after the bounds step, has   *)
(* 0 <= x <= W - 1, 0 <= y <= H - 1, w >= 1, h >= 1, x + w <= W and        *)
(* y + h <= H for the W x H image, and the crop is w x h pixels.           *)
C8_CropInsideImage ==
    Cropped =>
        \A k \in 1..Len(locals.symbol_images) :
            LET s == locals.symbol_images[k]
                b == s.bbox
            IN /\ 0 <= b[1] /\ b[1] <= s.img_w - 1
               /\ 0 <= b[2] /\ b[2] <= s.img_h - 1
               /\ b[3] >= 1 /\ b[4] >= 1
               /\ b[1] + b[3] <= s.img_w
               /\ b[2] + b[4] <= s.img_h
               /\ s.symbol_img.width = b[3]
               /\ s.symbol_img.height = b[4]

(* C8 witness: a save cropped two rectangles, one dragged left of and      *)
(* above the image, one reaching past its right and bottom edges.          *)
C8_Witness ==
    /\ Cropped
    /\ Len(locals.symbol_images) = 2
    /\ \E k \in 1..2 :
          locals.symbol_images[k].box[1] < 0 /\ locals.symbol_images[k].box[2] < 0
    /\ \E k \in 1..2 :
          LET s == locals.symbol_images[k]
          IN /\ s.box[1] >= 0 /\ s.box[1] + s.box[3] > s.img_w
             /\ s.box[2] >= 0 /\ s.box[2] + s.box[4] > s.img_h

\* save_text_label went through a confirmed save
Saved ==
    /\ locals.handler = "save_text_label"
    /\ locals.outcome = "saved"
\* the session is idle: no text entered, no box, the save button disabled
Idle ==
    /\ current_text = <<>>
    /\ text_input = <<>>
    /\ symbol_rects = <<>>
    /\ ~text_save_btn
\* the paths among results, in order
PathsOf(results) == SelectSeq(results, LAMBDA r : r # NoPath)

(* C12: when the user confirms a save, save_text_label makes one save call *)
(* for every (character, rectangle) pair, in text order, the templates     *)
(* written are added in that order, and afterwards the session is idle:    *)
(* text empty, no rectangle, save button disabled.                         *)
C12_ConfirmedSaveClears ==
    [][(save_text_label /\ locals'.outcome = "saved")
          => LET text == strip(current_text)
                 frame == locals'
             IN /\ Len(text) = Len(symbol_rects)
                /\ Len(frame.symbol_images) = Len(text)
                /\ Len(frame.results) = Len(text)
                /\ \A k \in 1..Len(text) :
                      /\ frame.symbol_images[k].char = text[k]
                      /\ frame.symbol_images[k].rect = symbol_rects[k]
                      /\ frame.results[k] = save_symbol(text[k], frame.written[k])
                /\ templates' = templates \o PathsOf(frame.results)
                /\ Idle']_vars

(* C12 witness: a confirmed save of two symbols wrote both templates and   *)
(* left the session idle.                                                  *)
C12_Witness ==
    /\ Saved
    /\ Len(locals.results) = 2
    /\ templates = locals.results
    /\ locals.results[1] # NoPath /\ locals.results[2] # NoPath
    /\ Idle

\* the session holds text or rectangles that a save would use
Pending == current_text # <<>> \/ symbol_rects # <<>>

(* C13 as stated: declining the save confirmation, and moving to another   *)
(* file while text or rectangles are pending, writes no template and       *)
(* leaves the session idle: text empty, no rectangle, save button          *)
(* disabled.                                                               *)
C13_AsStated ==
    [][(\/ save_text_label /\ locals'.outcome = "declined"
        \/ /\ prev_file \/ next_file
           /\ current_file_index' # current_file_index
           /\ Pending)
          => (templates' = templates /\ Idle')]_vars

\* cv2.imwrite succeeded for symbol k of a confirmed save; no write is made
\* for a digit that is not one of 0-9
WriteSucceeded(frame, k) ==
    frame.written[k] /\ frame.symbol_images[k].char # "U+00B2"

(* C14: in a confirmed save every symbol whose write succeeds is saved,    *)
(* whether or not the write of another symbol failed, the templates        *)
(* written stay, and the count reported is the number of symbols whose     *)
(* write succeeded.                                                        *)
C14_PartialSaveCounted ==
    Saved =>
        LET n == Len(locals.symbol_images)
            succeeded == {k \in 1..n : WriteSucceeded(locals, k)}
        IN /\ Len(locals.results) = n
           /\ \A k \in 1..n : (locals.results[k] # NoPath) <=> (k \in succeeded)
           /\ locals.saved_count = Cardinality(succeeded)
           /\ Len(templates) >= locals.saved_count
           /\ SubSeq(templates, Len(templates) - locals.saved_count + 1,
                     Len(templates)) = PathsOf(locals.results)

(* C14 witness: in a confirmed save of two symbols the first write failed, *)
(* the second succeeded and the count reported is 1.                       *)
C14_Witness ==
    /\ Saved
    /\ Len(locals.symbol_images) = 2
    /\ ~WriteSucceeded(locals, 1)
    /\ WriteSucceeded(locals, 2)
    /\ locals.saved_count = 1
    /\ templates = <<locals.results[2]>>

\* create_symbol_regions made, for a text of n characters, n rectangles of
\* the default size w x h shown at x = 10 + i * (w + 5), y = 10 in image
\* pixels, 5 pixels apart
LaidOut(rects, n, w, h, scale) ==
    /\ Len(rects) = n
    /\ \A k \in 1..n :
          /\ DisplayedBox(rects[k], scale) = <<10 + (k - 1) * (w + 5), 10, w, h>>
          /\ rects[k].index = k - 1
    /\ \A k \in 1..(n - 1) :
          DisplayedBox(rects[k + 1], scale)[1]
              - (DisplayedBox(rects[k], scale)[1] + w) = 5

(* C15 as stated: create_symbol_regions, with an image loaded and a        *)
(* non-empty entered text of length N, replaces the rectangles by N        *)
(* rectangles of the default size laid out from x = 10, y = 10 with 5      *)
(* pixels between them; with empty text or no image it changes nothing.    *)
C15_AsStated ==
    [][create_symbol_regions
          => IF text_input # <<>> /\ current_image # None
             THEN LaidOut(symbol_rects', Len(text_input), symbol_width_spin,
                          symbol_height_spin, display_scale)
             ELSE UNCHANGED sessionVars]_vars

(* C15, amended: the text is the entered text with leading and trailing    *)
(* blanks removed; when it has N >= 1 characters and an image is loaded,   *)
(* create_symbol_regions replaces the rectangles by N rectangles of the    *)
(* default size laid out from x = 10, y = 10 with 5 pixels between them;   *)
(* when it is empty or no image is loaded it changes nothing.              *)
C15_OneBoxPerCharacter ==
    [][create_symbol_regions
          => IF strip(text_input) # <<>> /\ current_image # None
             THEN /\ LaidOut(symbol_rects', Len(strip(text_input)),
                             symbol_width_spin, symbol_height_spin, display_scale)
                  /\ current_text' = strip(text_input)
             ELSE UNCHANGED sessionVars]_vars

(* C15 witness: two rectangles of the size 3 x 4 stand where               *)
(* create_symbol_regions put them for the text " a.".                      *)
C15_Witness ==
    /\ text_input = <<" ", "a", ".">>
    /\ current_text = <<"a", ".">>
    /\ symbol_width_spin = 3
    /\ LaidOut(symbol_rects, 2, 3, 4, display_scale)

(* C16 as stated: apply_symbol_size_to_all gives every rectangle the       *)
(* default width and height and leaves the position, the number and the    *)
(* order of the rectangles unchanged.                                      *)
C16_AsStated ==
    [][apply_symbol_size_to_all
          => /\ app_running'
             /\ Len(symbol_rects') = Len(symbol_rects)
             /\ \A k \in 1..Len(symbol_rects) :
                   /\ symbol_rects'[k].pos = symbol_rects[k].pos
                   /\ symbol_rects'[k].index = symbol_rects[k].index
                   /\ symbol_rects'[k].rect =
                         <<symbol_rects[k].rect[1], symbol_rects[k].rect[2],
                           symbol_width_spin * display_scale,
                           symbol_height_spin * display_scale>>]_vars

(* C17 as stated: an edit in the spin boxes of the selected symbol         *)
(* replaces the rectangle at the selected index by the one the spin boxes  *)
(* give and no other: every other rectangle, their number and their order  *)
(* are unchanged; with no valid selected index nothing changes.            *)
C17_AsStated ==
    [][on_selected_symbol_changed
          => /\ app_running'
             /\ Len(symbol_rects') = Len(symbol_rects)
             /\ \A k \in 1..Len(symbol_rects) :
                   IF k = selected_symbol_index + 1
                   THEN /\ symbol_rects'[k].index = symbol_rects[k].index
                        /\ symbol_rects'[k].pos =
                              <<symbol_x_spin' * display_scale,
                                symbol_y_spin' * display_scale>>
                        /\ symbol_rects'[k].rect =
                              <<0, 0, symbol_w_spin' * display_scale,
                                symbol_h_spin' * display_scale>>
                   ELSE symbol_rects'[k] = symbol_rects[k]]_vars

\* the characters of the model by kind
AsciiDigits == {"0", "1", "2", "3", "4", "5", "6", "7", "8", "9"}
AsciiLetters == {"a", "b", "K", "Q"}
NonAsciiLetters == {"U+044F"}
NonAscii == {"U+044F", "U+00B2"}
\* the hex code-point token of a character
HexToken(char) ==
    CASE char = " " -> "char_0020"
      [] char = "$" -> "char_0024"
      [] char = "U+044F" -> "char_044f"
      [] char = "U+00B2" -> "char_00b2"
      [] OTHER -> "char_"

(* C18 as stated: a saved digit is keyed by the digit, '.' by the token    *)
(* dot, an ASCII letter by the character, and every character that is not  *)
(* alphanumeric or not ASCII by its hex code-point token.                  *)
C18_AsStated ==
    Saved =>
        \A k \in 1..Len(locals.results) :
            LET char == locals.symbol_images[k].char
                key == locals.results[k].stem
            IN locals.results[k] # NoPath =>
                  key = IF char \in AsciiDigits \cup AsciiLetters THEN char
                        ELSE IF char = "." THEN "dot"
                        ELSE HexToken(char)

(* C18, amended: a saved digit is keyed by the digit, '.' by the token     *)
(* dot, a letter, ASCII or not, by the character itself, and every         *)
(* character that is not alphanumeric by its hex code-point token.         *)
C18_KeyOfSavedSymbol ==
    Saved =>
        \A k \in 1..Len(locals.results) :
            LET char == locals.symbol_images[k].char
                key == locals.results[k].stem
            IN locals.results[k] # NoPath =>
                  key = IF char \in AsciiDigits \cup AsciiLetters \cup NonAsciiLetters
                        THEN char
                        ELSE IF char = "." THEN "dot"
                        ELSE HexToken(char)

(* C18 witness: a confirmed save wrote the templates of '$' and of the     *)
(* Cyrillic letter ya.                                                     *)
C18_Witness ==
    /\ Saved
    /\ Len(locals.results) = 2
    /\ locals.symbol_images[1].char = "$"
    /\ locals.symbol_images[2].char = "U+044F"
    /\ locals.results[1] # NoPath /\ locals.results[2] # NoPath


(* C26 as stated: whenever symbol boxes exist in the labeling session an   *)
(* image is loaded (the image the boxes were placed on), so that           *)
(* save_text_label never crops the boxes from a missing image.             *)
C26_AsStated ==
    /\ symbol_rects # <<>> => current_image # None
    /\ locals.handler = "save_text_label" => locals.outcome # "raised"

\* the file list is empty and no file is current, or the current index
\* is an index of the list
IndexInRange ==
    IF current_region_files = <<>> THEN current_file_index = -1
    ELSE current_file_index \in 0..(Len(current_region_files) - 1)

(* C29: after any sequence of load_region_files, prev_file, next_file and  *)
(* delete_current_file, current_file_index is -1 when the file list is     *)
(* empty and otherwise 0 <= current_file_index < number of files;          *)
(* prev_file at the first file and next_file at the last file change       *)
(* nothing.                                                                *)
C29_IndexInRange ==
    [][/\ IndexInRange => IndexInRange'
       /\ (prev_file /\ current_file_index <= 0)
              => UNCHANGED <<sessionVars, splitterArgs, result>>
       /\ (next_file /\ current_file_index >= Len(current_region_files) - 1)
              => UNCHANGED <<sessionVars, splitterArgs, result>>]_vars

(* C29 witness: delete_current_file has removed the last file of a list    *)
(* that was loaded and had symbol boxes placed on its image: the list is   *)
(* empty and the index is -1.                                              *)
C29_Witness ==
    /\ current_region_files = <<>>
    /\ current_file_index = -1
    /\ symbol_rects # <<>>



----------------------------------------------------------------------------
(* Properties of the template store, checked under SpecTemplates.          *)

(* C27 as stated: for every template category, when a save of the          *)
(* template store has succeeded for a key, template_exists(category, key)  *)
(* returns true for that key.                                              *)
C27_AsStated ==
    (locals # NoFrame /\ result # NoPath)
        => template_exists(templates, locals.category, locals.key)


----------------------------------------------------------------------------
(* Properties of the screenshot session, checked under SpecScreenshot.     *)

(* C30: in screenshot mode, after any sequence of toggle_capture,          *)
(* start_capture, stop_capture and update_window_status (and of the other  *)
(* handlers of the mode), the capture timer is active if and only if       *)
(* is_capturing is true; start_capture with no valid game window leaves    *)
(* the session stopped as it was, and an update_window_status that finds   *)
(* the window invalid while capturing stops the capture.                   *)
C30_TimerIffCapturing ==
    /\ [](capture_timer.active <=> is_capturing)
    /\ [][/\ (start_capture /\ ~is_window_valid(hwnd))
                 => UNCHANGED <<is_capturing, capture_timer>>
          /\ (update_window_status /\ ~is_window_valid(hwnd))
                 => ~is_capturing' /\ ~capture_timer'.active]_vars

(* C30 witness: the window of a running capture has been closed, and the   *)
(* capture is stopped with the timer keeping the interval it ran with and  *)
(* a screenshot counted.                                                   *)
C30_Witness ==
    /\ hwnd # 0
    /\ hwnd \notin windows
    /\ ~is_capturing
    /\ capture_timer = [active |-> FALSE, interval |-> 500]
    /\ screenshot_count >= 1
    /\ ~start_stop_btn

====
